---- MODULE Spec2Model ----
(***************************************************************************)
(* Parking allocator of the traffic simulator (ParkingSimState) as a state *)
(* machine.  Distances are integers in units of half a metre, so that the  *)
(* halving in dist_along_for_car is exact for the vehicle lengths used.    *)
(* Option<T> is modelled as a set with at most one element: None is {} and *)
(* Some(x) is {x}.  Vec indices are 0-based as in the source.              *)
(* A failed assert! or unwrap sets panicked, after which no call is made;  *)
(* the state keeps what the call had written before it failed.  Callers    *)
(* pass spots that address a stall of the map.  The variable last holds    *)
(* the most recent call: its arguments, what it saw and what it returned.  *)
(***************************************************************************)
EXTENDS Integers, Sequences, FiniteSets, TLC

VARIABLES cars, lanes, reserved_spots, panicked, last, pc, target,
          clock, count_per_road, count_per_intersection,
          raw_per_road, raw_per_intersection,
          bus_arrivals, total_bus_passengers, finished_trips, trip_log,
          intersection_delays

allocVars == <<cars, lanes, reserved_spots, panicked>>
agentVars == <<pc, target>>
thruputVars == <<count_per_road, count_per_intersection,
                 raw_per_road, raw_per_intersection>>
logVars == <<bus_arrivals, total_bus_passengers, finished_trips, trip_log,
             intersection_delays>>
anaVars == <<clock, thruputVars, logVars>>
vars == <<cars, lanes, reserved_spots, panicked, last, pc, target,
          clock, count_per_road, count_per_intersection,
          raw_per_road, raw_per_intersection,
          bus_arrivals, total_bus_passengers, finished_trips, trip_log,
          intersection_delays>>

(* ------------------------------ the map -------------------------------- *)

\* Number of vehicles that exist in the simulation.
NumCars == 2

\* Length of a parking spot, map_model::PARKING_SPOT_LENGTH (8 m).
PARKING_SPOT_LENGTH == 16

CarIDs == 1 .. NumCars

\* Lengths of the vehicles (4 m, 6 m, 10 m), assigned to the ids in turn.
VehicleLengths == <<8, 12, 20>>

Vehicle(id) == [id |-> id, length |-> VehicleLengths[((id - 1) % Len(VehicleLengths)) + 1]]

Vehicles == {Vehicle(id) : id \in CarIDs}

\* The lanes of the map: lane 0 is a parking lane with three stalls, lane 1
\* a driving lane (no stalls).
MapLanes == <<[id |-> 0, lane_type |-> "Parking", spots |-> 3],
              [id |-> 1, lane_type |-> "Driving", spots |-> 0]>>

LaneIDs == {MapLanes[i].id : i \in 1 .. Len(MapLanes)}

all_lanes(i) == MapLanes[i + 1]

number_parking_spots(l) == l.spots

None == {}

Some(x) == {x}

Unwrap(o) == CHOOSE x \in o : TRUE

ParkingSpot(lane, idx) == [lane |-> lane, idx |-> idx]

\* Every (lane, index) that addresses a stall of the map.
AllSpots == UNION {{ParkingSpot(MapLanes[i].id, idx) :
                        idx \in 0 .. number_parking_spots(MapLanes[i]) - 1} :
                   i \in 1 .. Len(MapLanes)}

ParkedCars == [vehicle : Vehicles, spot : AllSpots]

\* Distances along a lane at which queries are made.
QueryDists == {0, 29, 30, 45, 61, 63}

Positions == [lane : LaneIDs, dist_along : QueryDists]

(* --------------------------- ParkingLane ------------------------------- *)

ParkingLaneNew(l) ==
    IF l.lane_type # "Parking"
    THEN [id |-> l.id, spots |-> [idx \in {} |-> 0], occupants |-> [idx \in {} |-> None]]
    ELSE [id |-> l.id,
          occupants |-> [idx \in 0 .. number_parking_spots(l) - 1 |-> None],
          spots |-> [idx \in 0 .. number_parking_spots(l) - 1 |->
                        [dist_along |-> PARKING_SPOT_LENGTH * (2 + idx)]]]

VecLen(v) == Cardinality(DOMAIN v)

\* Iterator::position, scanning from idx on: test[i] is the closure's value on
\* element i; the first index whose test is TRUE, as an Option.
RECURSIVE PositionFrom(_, _)
PositionFrom(test, idx) ==
    IF idx >= VecLen(test) THEN None
    ELSE IF test[idx] THEN Some(idx)
    ELSE PositionFrom(test, idx + 1)

dist_along_for_car(geom, vehicle) ==
    geom.dist_along - ((PARKING_SPOT_LENGTH - vehicle.length) \div 2)

(* ---------------------------- ParkingSimState -------------------------- *)

ParkingSimStateNew ==
    [cars |-> [c \in {} |-> None],
     lanes |-> [i \in 0 .. Len(MapLanes) - 1 |-> ParkingLaneNew(all_lanes(i))],
     reserved_spots |-> {}]

\* BTreeMap::remove and BTreeMap::insert on the car records.
MapRemove(m, k) == [c \in (DOMAIN m) \ {k} |-> m[c]]

MapInsert(m, k, v) == [c \in (DOMAIN m) \cup {k} |-> IF c = k THEN v ELSE m[c]]

RECURSIVE FreeSpotsFrom(_, _)
FreeSpotsFrom(l, idx) ==
    IF idx >= VecLen(l.occupants) THEN <<>>
    ELSE (IF l.occupants[idx] = None THEN <<ParkingSpot(l.id, idx)>> ELSE <<>>)
         \o FreeSpotsFrom(l, idx + 1)

\* Variant of get_free_spots that also leaves out the reserved slots.
get_free_spots_SkipReserved(lane) ==
    SelectSeq(FreeSpotsFrom(lanes[lane], 0), LAMBDA spot : spot \notin reserved_spots)

\* Variant of get_free_spots whose scan starts at the second slot.
get_free_spots_FromOne(lane) == FreeSpotsFrom(lanes[lane], 1)

get_free_spots(lane) == FreeSpotsFrom(lanes[lane], 0)

is_free(spot) ==
    /\ lanes[spot.lane].occupants[spot.idx] = None
    /\ spot \notin reserved_spots

\* Variant of get_first_free_spot without the "must be ahead" test.
get_first_free_spot_AnyDistance(parking_pos, vehicle) ==
    LET lane == parking_pos.lane
        l == lanes[lane]
        test == [idx \in DOMAIN l.occupants |->
                    /\ l.occupants[idx] = None
                    /\ ParkingSpot(lane, idx) \notin reserved_spots]
        idx == PositionFrom(test, 0)
    IN  IF idx = None THEN None ELSE Some(ParkingSpot(lane, Unwrap(idx)))

\* Variant of get_first_free_spot that does not look at the reservations.
get_first_free_spot_IgnoreReserved(parking_pos, vehicle) ==
    LET lane == parking_pos.lane
        l == lanes[lane]
        test == [idx \in DOMAIN l.occupants |->
                    /\ l.occupants[idx] = None
                    /\ parking_pos.dist_along <= dist_along_for_car(l.spots[idx], vehicle)]
        idx == PositionFrom(test, 0)
    IN  IF idx = None THEN None ELSE Some(ParkingSpot(lane, Unwrap(idx)))

\* Variant of get_first_free_spot that does not look at the occupants.
get_first_free_spot_IgnoreOccupant(parking_pos, vehicle) ==
    LET lane == parking_pos.lane
        l == lanes[lane]
        test == [idx \in DOMAIN l.occupants |->
                    /\ ParkingSpot(lane, idx) \notin reserved_spots
                    /\ parking_pos.dist_along <= dist_along_for_car(l.spots[idx], vehicle)]
        idx == PositionFrom(test, 0)
    IN  IF idx = None THEN None ELSE Some(ParkingSpot(lane, Unwrap(idx)))

get_first_free_spot(parking_pos, vehicle) ==
    LET lane == parking_pos.lane
        l == lanes[lane]
        test == [idx \in DOMAIN l.occupants |->
                    /\ l.occupants[idx] = None
                    /\ ParkingSpot(lane, idx) \notin reserved_spots
                    /\ parking_pos.dist_along <= dist_along_for_car(l.spots[idx], vehicle)]
        idx == PositionFrom(test, 0)
    IN  IF idx = None THEN None ELSE Some(ParkingSpot(lane, Unwrap(idx)))

\* ParkingLane::remove_parked_car: the index it clears, None when unwrap panics.
LaneFindCar(l, car) ==
    LET test == [idx \in DOMAIN l.occupants |-> l.occupants[idx] = Some(car)]
    IN  PositionFrom(test, 0)

\* Variant of remove_parked_car that also drops a reservation of the spot.
remove_parked_car_DropsReservation(p) ==
    LET found == LaneFindCar(lanes[p.spot.lane], p.vehicle.id)
    IN  /\ cars' = MapRemove(cars, p.vehicle.id)
        /\ IF found = None
           THEN /\ panicked' = TRUE
                /\ UNCHANGED lanes
           ELSE /\ lanes' = [lanes EXCEPT ![p.spot.lane].occupants[Unwrap(found)] = None]
                /\ UNCHANGED panicked
        /\ reserved_spots' = reserved_spots \ {p.spot}
        /\ last' = [op |-> "remove_parked_car", p |-> p,
                    was_occupant |-> lanes[p.spot.lane].occupants[p.spot.idx],
                    ok |-> ~panicked', cleared |-> found]

remove_parked_car(p) ==
    LET found == LaneFindCar(lanes[p.spot.lane], p.vehicle.id)
    IN  /\ cars' = MapRemove(cars, p.vehicle.id)
        /\ IF found = None
           THEN /\ panicked' = TRUE
                /\ UNCHANGED lanes
           ELSE /\ lanes' = [lanes EXCEPT ![p.spot.lane].occupants[Unwrap(found)] = None]
                /\ UNCHANGED panicked
        /\ UNCHANGED reserved_spots
        /\ last' = [op |-> "remove_parked_car", p |-> p,
                    was_occupant |-> lanes[p.spot.lane].occupants[p.spot.idx],
                    ok |-> ~panicked', cleared |-> found]

\* Variant of add_parked_car without the assertion that the spot is unoccupied.
add_parked_car_NoOccupantCheck(p) ==
    LET spot == p.spot
    IN  /\ IF spot \notin reserved_spots
           THEN /\ panicked' = TRUE
                /\ UNCHANGED <<cars, lanes, reserved_spots>>
           ELSE /\ reserved_spots' = reserved_spots \ {spot}
                /\ lanes' = [lanes EXCEPT ![spot.lane].occupants[spot.idx] = Some(p.vehicle.id)]
                /\ cars' = MapInsert(cars, p.vehicle.id, p)
                /\ UNCHANGED panicked
        /\ last' = [op |-> "add_parked_car", p |-> p,
                    was_reserved |-> spot \in reserved_spots,
                    was_occupant |-> lanes[spot.lane].occupants[spot.idx],
                    ok |-> ~panicked']

add_parked_car(p) ==
    LET spot == p.spot
    IN  /\ IF spot \notin reserved_spots
           THEN /\ panicked' = TRUE
                /\ UNCHANGED <<cars, lanes, reserved_spots>>
           ELSE IF lanes[spot.lane].occupants[spot.idx] # None
           THEN /\ panicked' = TRUE
                /\ reserved_spots' = reserved_spots \ {spot}
                /\ UNCHANGED <<cars, lanes>>
           ELSE /\ reserved_spots' = reserved_spots \ {spot}
                /\ lanes' = [lanes EXCEPT ![spot.lane].occupants[spot.idx] = Some(p.vehicle.id)]
                /\ cars' = MapInsert(cars, p.vehicle.id, p)
                /\ UNCHANGED panicked
        /\ last' = [op |-> "add_parked_car", p |-> p,
                    was_reserved |-> spot \in reserved_spots,
                    was_occupant |-> lanes[spot.lane].occupants[spot.idx],
                    ok |-> ~panicked']

reserve_spot(spot) ==
    /\ reserved_spots' = reserved_spots \cup {spot}
    /\ UNCHANGED <<cars, lanes, panicked>>
    /\ last' = [op |-> "reserve_spot", spot |-> spot,
                was_reserved |-> spot \in reserved_spots,
                was_occupant |-> lanes[spot.lane].occupants[spot.idx],
                ok |-> ~panicked']

\* get_draw_car: the drawable snapshot of a parked car, None for a car
\* without a record.  The body is the stretch of the lane centre from
\* front_dist - length to front_dist.
get_draw_car(id) ==
    IF id \notin DOMAIN cars THEN None
    ELSE LET p == cars[id]
             lane == p.spot.lane
             front_dist == dist_along_for_car(lanes[lane].spots[p.spot.idx], p.vehicle)
         IN  Some([id |-> p.vehicle.id, state |-> "Parked", on |-> lane,
                   body |-> <<front_dist - p.vehicle.length, front_dist>>])

\* The filter_map of get_draw_cars from slot idx on: ok is FALSE when the
\* unwrap met an occupant without a record.
RECURSIVE DrawCarsFrom(_, _)
DrawCarsFrom(l, idx) ==
    IF idx >= VecLen(l.occupants) THEN [ok |-> TRUE, result |-> <<>>]
    ELSE IF l.occupants[idx] = None THEN DrawCarsFrom(l, idx + 1)
    ELSE LET d == get_draw_car(Unwrap(l.occupants[idx]))
             rest == DrawCarsFrom(l, idx + 1)
         IN  IF d = None THEN [ok |-> FALSE, result |-> <<>>]
             ELSE [ok |-> rest.ok,
                   result |-> IF rest.ok THEN <<Unwrap(d)>> \o rest.result ELSE <<>>]

get_draw_cars(id) == DrawCarsFrom(lanes[id], 0)

\* get_all_draw_cars: one snapshot per key of cars (every key has a record).
get_all_draw_cars ==
    [ok |-> TRUE, result |-> {Unwrap(get_draw_car(id)) : id \in DOMAIN cars}]

\* get_car_at_spot: unwrap of the occupant, ok is FALSE when the slot is empty.
get_car_at_spot(spot) ==
    LET o == lanes[spot.lane].occupants[spot.idx]
    IN  [ok |-> o # None, result |-> o]

(* ------------------------------ Analytics ------------------------------ *)
(* src/sim/src/analytics.rs.  Times and durations are whole seconds.  A    *)
(* Vec is a sequence, a tuple of a raw log is a record <<t, m, id>>, a      *)
(* Counter is a function with 0 for a key never incremented, and the        *)
(* BTreeMap returned by a throughput query is a function on TripMode::all().*)

MaxTime == 4
MaxEvents == 2

START_OF_DAY == 0
Times == START_OF_DAY .. MaxTime
BucketWidths == {1, 2}

Roads == {"r0", "r1"}
Intersections == {"i0"}

TripModes == {"Walk", "Bike", "Transit", "Drive"}

AgentKinds == {"Pedestrian", "Car", "Bike", "Bus"}

\* The agents drawn as inputs of the recorded events.
EventAgents == {"Pedestrian", "Car"}

Traversables ==
    [kind : {"Lane"}, parent : Roads] \cup [kind : {"Turn"}, parent : Intersections]

Events == [type : {"AgentEntersTraversable"}, agent : EventAgents, to : Traversables]

BusRoutes == {"br0", "br1"}
BusStops == {"s0", "s1"}
BusIDs == {"b0", "b1"}
TripIDs == {"t0", "t1"}

ModeOf(agent) ==
    CASE agent = "Pedestrian" -> "Walk"
      [] agent = "Car" -> "Drive"
      [] agent = "Bike" -> "Bike"
      [] agent = "Bus" -> "Transit"

Min(a, b) == IF a <= b THEN a ELSE b

AnalyticsNew ==
    [count_per_road |-> [r \in Roads |-> 0],
     count_per_intersection |-> [i \in Intersections |-> 0],
     raw_per_road |-> <<>>,
     raw_per_intersection |-> <<>>,
     bus_arrivals |-> <<>>,
     total_bus_passengers |-> [r \in BusRoutes |-> 0],
     finished_trips |-> <<>>,
     trip_log |-> <<>>,
     intersection_delays |-> <<>>]

\* The Analytics held by the state variables.
AnalyticsState ==
    [count_per_road |-> count_per_road,
     count_per_intersection |-> count_per_intersection,
     raw_per_road |-> raw_per_road,
     raw_per_intersection |-> raw_per_intersection,
     bus_arrivals |-> bus_arrivals,
     total_bus_passengers |-> total_bus_passengers,
     finished_trips |-> finished_trips,
     trip_log |-> trip_log,
     intersection_delays |-> intersection_delays]

\* derive(Serialize): the fields without serde(skip_serializing).
Serialize(a) ==
    [thruput_stats |-> [raw_per_road |-> a.raw_per_road,
                        raw_per_intersection |-> a.raw_per_intersection],
     bus_arrivals |-> a.bus_arrivals,
     finished_trips |-> a.finished_trips,
     trip_log |-> a.trip_log,
     intersection_delays |-> a.intersection_delays]

\* derive(Deserialize): a skipped field takes its Default, an empty Counter.
Deserialize(s) ==
    [count_per_road |-> [r \in Roads |-> 0],
     count_per_intersection |-> [i \in Intersections |-> 0],
     raw_per_road |-> s.thruput_stats.raw_per_road,
     raw_per_intersection |-> s.thruput_stats.raw_per_intersection,
     bus_arrivals |-> s.bus_arrivals,
     total_bus_passengers |-> [r \in BusRoutes |-> 0],
     finished_trips |-> s.finished_trips,
     trip_log |-> s.trip_log,
     intersection_delays |-> s.intersection_delays]

TRIP_FINISHED == "trip finished"
TRIP_ABORTED == "trip aborted for some reason"

\* The entry is stored in front of the entries already there.
Push_Front(vec, x) == <<x>> \o vec

\* The entry takes the place of the latest one.
Push_ReplaceLast(vec, x) ==
    IF vec = <<>> THEN <<x>> ELSE [vec EXCEPT ![Len(vec)] = x]

\* Vec::push.
Push(vec, x) == Append(vec, x)

\* The counter is left as it is.
Inc_Nothing(counter, k) == counter

\* Counter::inc.
Inc(counter, k) == [counter EXCEPT ![k] = @ + 1]

\* Analytics::event.  Every `if let` of the body is one conjunct: the
\* throughput counters and raw logs, the bus arrivals, the bus passengers,
\* the finished trips (an aborted trip has no mode and a zero duration),
\* the delays of the intersection (its list is created on first use) and
\* the trip log (a finished or aborted trip is logged without a request,
\* under a fixed text).  test_expectations is empty outside the tests.
event(ev, time) ==
    /\ IF ev.type = "AgentEntersTraversable"
       THEN LET mode == ModeOf(ev.agent) IN
            IF ev.to.kind = "Lane"
            THEN /\ count_per_road' = Inc(count_per_road, ev.to.parent)
                 /\ raw_per_road' = Push(raw_per_road,
                                           [t |-> time, m |-> mode, id |-> ev.to.parent])
                 /\ UNCHANGED <<count_per_intersection, raw_per_intersection>>
            ELSE /\ count_per_intersection' = Inc(count_per_intersection, ev.to.parent)
                 /\ raw_per_intersection' = Push(raw_per_intersection,
                                                   [t |-> time, m |-> mode, id |-> ev.to.parent])
                 /\ UNCHANGED <<count_per_road, raw_per_road>>
       ELSE UNCHANGED thruputVars
    /\ bus_arrivals' =
           IF ev.type = "BusArrivedAtStop"
           THEN Push(bus_arrivals,
                       [t |-> time, car |-> ev.bus, route |-> ev.route, stop |-> ev.stop])
           ELSE bus_arrivals
    /\ total_bus_passengers' =
           IF ev.type = "PedEntersBus"
           THEN Inc(total_bus_passengers, ev.route)
           ELSE total_bus_passengers
    /\ finished_trips' =
           IF ev.type = "TripFinished"
           THEN Push(finished_trips,
                       [t |-> time, id |-> ev.id, m |-> Some(ev.mode), dt |-> ev.dt])
           ELSE IF ev.type = "TripAborted"
           THEN Push(finished_trips, [t |-> time, id |-> ev.id, m |-> None, dt |-> 0])
           ELSE finished_trips
    /\ intersection_delays' =
           IF ev.type = "IntersectionDelayMeasured"
           THEN LET list == IF ev.id \in DOMAIN intersection_delays
                            THEN intersection_delays[ev.id] ELSE <<>>
                IN MapInsert(intersection_delays, ev.id,
                             Push(list, [t |-> time, dt |-> ev.delay]))
           ELSE intersection_delays
    /\ trip_log' =
           IF ev.type = "TripPhaseStarting"
           THEN Push(trip_log, [t |-> time, id |-> ev.id,
                                  maybe_req |-> ev.maybe_req, md |-> ev.metadata])
           ELSE IF ev.type = "TripAborted"
           THEN Push(trip_log, [t |-> time, id |-> ev.id,
                                  maybe_req |-> None, md |-> TRIP_ABORTED])
           ELSE IF ev.type = "TripFinished"
           THEN Push(trip_log, [t |-> time, id |-> ev.id,
                                  maybe_req |-> None, md |-> TRIP_FINISHED])
           ELSE trip_log

Point(t, n) == [t |-> t, n |-> n]

PushAll(per_mode, t) == [m \in TripModes |-> Append(per_mode[m], Point(t, 0))]

IncLast(per_mode, m) ==
    [per_mode EXCEPT ![m] = [@ EXCEPT ![Len(@)] = Point(@.t, @.n + 1)]]

\* Where a record is counted: the time of the point that received it and
\* the time of the point before that one (the same point when it is the
\* first).  Kept for the properties only.
Placed(rec, series) ==
    [t |-> rec.t,
     at |-> series[Len(series)].t,
     from |-> IF Len(series) > 1 THEN series[Len(series) - 1].t
                                  ELSE series[Len(series)].t]

\* The state of the walk: the current boundary, the series built so far and
\* where every counted record went.
WalkState(max_this_bucket, per_mode, placed) ==
    [max_this_bucket |-> max_this_bucket, per_mode |-> per_mode, placed |-> placed]

\* A record that opens a new bucket is not counted in it.
RECURSIVE ThruputLoop_SkipOnAdvance(_, _, _, _, _, _)
ThruputLoop_SkipOnAdvance(raw, idx, now, id, bucket, w) ==
    IF idx > Len(raw) THEN w
    ELSE LET rec == raw[idx] IN
         IF rec.id # id THEN ThruputLoop_SkipOnAdvance(raw, idx + 1, now, id, bucket, w)
         ELSE IF rec.t > now THEN w
         ELSE IF rec.t > w.max_this_bucket
              THEN LET max2 == Min(now, w.max_this_bucket + bucket) IN
                   ThruputLoop_SkipOnAdvance(raw, idx + 1, now, id, bucket,
                       WalkState(max2, PushAll(w.per_mode, max2), w.placed))
              ELSE ThruputLoop_SkipOnAdvance(raw, idx + 1, now, id, bucket,
                       WalkState(w.max_this_bucket, IncLast(w.per_mode, rec.m),
                                 Append(w.placed, Placed(rec, w.per_mode[rec.m]))))

\* The loop shared, word for word, by throughput_road and
\* throughput_intersection: records of other loci are skipped, the first
\* record after now ends the walk, a record after the current boundary moves
\* the boundary forward by ONE bucket (capped at now) and pushes one zero
\* point per mode, and the record is counted in the last point of its mode.
RECURSIVE ThruputLoop(_, _, _, _, _, _)
ThruputLoop(raw, idx, now, id, bucket, w) ==
    IF idx > Len(raw) THEN w
    ELSE LET rec == raw[idx] IN
         IF rec.id # id THEN ThruputLoop(raw, idx + 1, now, id, bucket, w)
         ELSE IF rec.t > now THEN w
         ELSE LET adv == rec.t > w.max_this_bucket
                  max2 == IF adv THEN Min(now, w.max_this_bucket + bucket)
                                 ELSE w.max_this_bucket
                  pm1 == IF adv THEN PushAll(w.per_mode, max2) ELSE w.per_mode
              IN ThruputLoop(raw, idx + 1, now, id, bucket,
                     WalkState(max2, IncLast(pm1, rec.m),
                               Append(w.placed, Placed(rec, pm1[rec.m]))))

\* The road walk started the way the intersection walk starts: one point
\* only, first boundary not capped.
RoadWalk_SinglePoint(now, road, bucket) ==
    ThruputLoop(raw_per_road, 1, now, road, bucket,
        WalkState(START_OF_DAY + bucket,
             [m \in TripModes |-> <<Point(START_OF_DAY, 0)>>],
             <<>>))

\* throughput_road: the first boundary is capped at now, and every mode
\* starts with the two points (START_OF_DAY, 0) and (first boundary, 0).
RoadWalk(now, road, bucket) ==
    LET max_this_bucket == Min(now, START_OF_DAY + bucket) IN
    ThruputLoop(raw_per_road, 1, now, road, bucket,
        WalkState(max_this_bucket,
             [m \in TripModes |-> <<Point(START_OF_DAY, 0), Point(max_this_bucket, 0)>>],
             <<>>))

throughput_road(now, road, bucket) == RoadWalk(now, road, bucket).per_mode

\* throughput_intersection: the first boundary is NOT capped at now, and
\* every mode starts with the single point (START_OF_DAY, 0).
IntersectionWalk(now, intersection, bucket) ==
    ThruputLoop(raw_per_intersection, 1, now, intersection, bucket,
        WalkState(START_OF_DAY + bucket,
             [m \in TripModes |-> <<Point(START_OF_DAY, 0)>>],
             <<>>))

throughput_intersection(now, intersection, bucket) ==
    IntersectionWalk(now, intersection, bucket).per_mode

(* A DurationHistogram is the sequence of the durations added to it.       *)

Bucket(t, h) == [t |-> t, h |-> h]

\* The loop of intersection_delays_bucketized over the list of one
\* intersection: the first record after now ends the walk, a record after the
\* current boundary moves the boundary forward by one bucket (capped at now)
\* and pushes one empty histogram, and the delay is added to the last one.
RECURSIVE DelaysLoop(_, _, _, _, _, _)
DelaysLoop(list, idx, now, bucket, max_this_bucket, results) ==
    IF idx > Len(list) THEN results
    ELSE LET rec == list[idx] IN
         IF rec.t > now THEN results
         ELSE LET adv == rec.t > max_this_bucket
                  max2 == IF adv THEN Min(now, max_this_bucket + bucket)
                                 ELSE max_this_bucket
                  r1 == IF adv THEN Append(results, Bucket(max2, <<>>)) ELSE results
              IN DelaysLoop(list, idx + 1, now, bucket, max2,
                     [r1 EXCEPT ![Len(r1)] = Bucket(@.t, Append(@.h, rec.dt))])

\* intersection_delays_bucketized: starts like throughput_road, with the two
\* buckets START_OF_DAY and the first boundary capped at now; an intersection
\* without a list yields just these two.
intersection_delays_bucketized(now, i, bucket) ==
    LET max_this_bucket == Min(now, START_OF_DAY + bucket)
        results == <<Bucket(START_OF_DAY, <<>>), Bucket(max_this_bucket, <<>>)>>
    IN IF i \in DOMAIN intersection_delays
       THEN DelaysLoop(intersection_delays[i], 1, now, bucket, max_this_bucket, results)
       ELSE results

(* ------------------------------ bus arrivals --------------------------- *)

\* The keys of a BTreeMap<CarID, _> of buses in their order.
BusOrder == <<"b0", "b1">>

\* The arrivals of every route are grouped, whatever route was asked for.
RECURSIVE PerBusLoop_AnyRoute(_, _, _, _, _)
PerBusLoop_AnyRoute(arrivals, idx, now, r, per_bus) ==
    IF idx > Len(arrivals) THEN per_bus
    ELSE LET e == arrivals[idx] IN
         IF e.t > now THEN per_bus
         ELSE LET events == IF e.car \in DOMAIN per_bus THEN per_bus[e.car] ELSE <<>> IN
              PerBusLoop_AnyRoute(arrivals, idx + 1, now, r,
                  MapInsert(per_bus, e.car, Push(events, [t |-> e.t, stop |-> e.stop])))

\* The first loop of bus_arrivals and of bus_arrivals_over_time: up to the
\* first arrival after now, the arrivals of route r are grouped by bus, each
\* as (time, stop), in log order.
RECURSIVE PerBusLoop(_, _, _, _, _)
PerBusLoop(arrivals, idx, now, r, per_bus) ==
    IF idx > Len(arrivals) THEN per_bus
    ELSE LET e == arrivals[idx] IN
         IF e.t > now THEN per_bus
         ELSE IF e.route = r
         THEN LET events == IF e.car \in DOMAIN per_bus THEN per_bus[e.car] ELSE <<>> IN
              PerBusLoop(arrivals, idx + 1, now, r,
                  MapInsert(per_bus, e.car, Push(events, [t |-> e.t, stop |-> e.stop])))
         ELSE PerBusLoop(arrivals, idx + 1, now, r, per_bus)

\* `for pair in events.windows(2)`: the time between two arrivals of the bus
\* that follow each other goes to the stop of the later one.  With timed,
\* the sample is stored with the time of the later arrival
\* (bus_arrivals_over_time); without, alone (bus_arrivals).
RECURSIVE WindowsLoop(_, _, _, _)
WindowsLoop(events, j, delay_to_stop, timed) ==
    IF j >= Len(events) THEN delay_to_stop
    ELSE LET stop == events[j + 1].stop
             dt == events[j + 1].t - events[j].t
             sample == IF timed THEN [t |-> events[j + 1].t, dt |-> dt] ELSE dt
             hgram == IF stop \in DOMAIN delay_to_stop THEN delay_to_stop[stop] ELSE <<>>
         IN WindowsLoop(events, j + 1,
                        MapInsert(delay_to_stop, stop, Push(hgram, sample)), timed)

\* `for events in per_bus.values()`, in the order of the buses.
RECURSIVE DelayToStopLoop(_, _, _, _)
DelayToStopLoop(per_bus, k, delay_to_stop, timed) ==
    IF k > Len(BusOrder) THEN delay_to_stop
    ELSE IF BusOrder[k] \in DOMAIN per_bus
    THEN DelayToStopLoop(per_bus, k + 1,
                         WindowsLoop(per_bus[BusOrder[k]], 1, delay_to_stop, timed), timed)
    ELSE DelayToStopLoop(per_bus, k + 1, delay_to_stop, timed)

bus_arrivals_query(now, r) ==
    DelayToStopLoop(PerBusLoop(bus_arrivals, 1, now, r, <<>>), 1, <<>>, FALSE)

bus_arrivals_over_time(now, r) ==
    DelayToStopLoop(PerBusLoop(bus_arrivals, 1, now, r, <<>>), 1, <<>>, TRUE)

(* ------------------------------ trip phases ---------------------------- *)
(* A description is a whole string; the prefixes the code tests for are    *)
(* listed with the descriptions that start with them.                      *)

CAR_PREFIX == "CarID("
PED_PREFIX == "PedestrianID("
PARKING_ELSEWHERE == "parking somewhere else"
PARKING_HERE == "parking on the current lane"

Descriptions ==
    {"CarID(0)", "PedestrianID(0)", "waiting for bus", PARKING_ELSEWHERE, PARKING_HERE}

starts_with(description, prefix) ==
    \/ description = prefix
    \/ <<description, prefix>> \in {<<"CarID(0)", CAR_PREFIX>>,
                                     <<"PedestrianID(0)", PED_PREFIX>>}

TripPhase(start_time, end_time, path, description) ==
    [start_time |-> start_time, end_time |-> end_time, path |-> path,
     description |-> description]

\* `if let Some(ref mut last) = phases.last_mut() { last.end_time = Some(*t) }`
CloseLast(phases, t) ==
    IF phases = <<>> THEN phases
    ELSE [phases EXCEPT ![Len(phases)].end_time = Some(t)]

\* maybe_req.map(...): the path found for the request that was made.
PathOf(maybe_req) == {[req |-> req] : req \in maybe_req}

\* The walk of get_trip_phases goes on past the terminal marker.
RECURSIVE TripPhasesLoop_NoBreak(_, _, _, _)
TripPhasesLoop_NoBreak(log, idx, trip, phases) ==
    IF idx > Len(log) THEN phases
    ELSE LET e == log[idx] IN
         IF e.id # trip THEN TripPhasesLoop_NoBreak(log, idx + 1, trip, phases)
         ELSE IF e.md = TRIP_FINISHED \/ e.md = TRIP_ABORTED
              THEN TripPhasesLoop_NoBreak(log, idx + 1, trip, CloseLast(phases, e.t))
              ELSE TripPhasesLoop_NoBreak(log, idx + 1, trip,
                       Append(CloseLast(phases, e.t),
                              TripPhase(e.t, None, PathOf(e.maybe_req), e.md)))

\* The end of the last phase is set only when another phase follows.
RECURSIVE TripPhasesLoop_CloseLate(_, _, _, _)
TripPhasesLoop_CloseLate(log, idx, trip, phases) ==
    IF idx > Len(log) THEN phases
    ELSE LET e == log[idx] IN
         IF e.id # trip THEN TripPhasesLoop_CloseLate(log, idx + 1, trip, phases)
         ELSE IF e.md = TRIP_FINISHED \/ e.md = TRIP_ABORTED THEN phases
              ELSE TripPhasesLoop_CloseLate(log, idx + 1, trip,
                       Append(CloseLast(phases, e.t),
                              TripPhase(e.t, None, PathOf(e.maybe_req), e.md)))

\* The loop of get_trip_phases: entries of other trips are skipped; an entry
\* of the trip closes the phase before it; the first terminal marker ends
\* the walk; any other entry opens a phase.
RECURSIVE TripPhasesLoop(_, _, _, _)
TripPhasesLoop(log, idx, trip, phases) ==
    IF idx > Len(log) THEN phases
    ELSE LET e == log[idx] IN
         IF e.id # trip THEN TripPhasesLoop(log, idx + 1, trip, phases)
         ELSE IF e.md = TRIP_FINISHED \/ e.md = TRIP_ABORTED
              THEN CloseLast(phases, e.t)
              ELSE TripPhasesLoop(log, idx + 1, trip,
                       Append(CloseLast(phases, e.t),
                              TripPhase(e.t, None, PathOf(e.maybe_req), e.md)))

get_trip_phases(trip) == TripPhasesLoop(trip_log, 1, trip, <<>>)

\* The loop of get_all_trip_phases: the trip of every entry gets a list of
\* phases; the entry closes the last phase of that list; "trip finished"
\* adds nothing and the walk goes on; "trip aborted for some reason" removes
\* the trip; any other entry opens a phase without a path.
RECURSIVE AllTripPhasesLoop(_, _, _)
AllTripPhasesLoop(log, idx, trips) ==
    IF idx > Len(log) THEN trips
    ELSE LET e == log[idx]
             phases == CloseLast(IF e.id \in DOMAIN trips THEN trips[e.id] ELSE <<>>, e.t)
         IN IF e.md = TRIP_FINISHED
            THEN AllTripPhasesLoop(log, idx + 1, MapInsert(trips, e.id, phases))
            ELSE IF e.md = TRIP_ABORTED
            THEN AllTripPhasesLoop(log, idx + 1, MapRemove(trips, e.id))
            ELSE AllTripPhasesLoop(log, idx + 1,
                     MapInsert(trips, e.id,
                               Append(phases, TripPhase(e.t, None, None, e.md))))

get_all_trip_phases == AllTripPhasesLoop(trip_log, 1, <<>>)

\* The keys of a BTreeMap<TripID, _> in their order.
TripOrder == <<"t0", "t1">>

\* A percentage is kept as the two durations it is the quotient of.
Fraction(num, den) == [num |-> num, den |-> den]

\* The time of every phase that is not driving counts as overhead.
RECURSIVE PhaseTimes_RestIsOverhead(_, _, _)
PhaseTimes_RestIsOverhead(phases, idx, acc) ==
    IF idx > Len(phases) THEN acc
    ELSE LET ph == phases[idx]
             dt == Unwrap(ph.end_time) - ph.start_time
         IN IF starts_with(ph.description, CAR_PREFIX)
            THEN PhaseTimes_RestIsOverhead(phases, idx + 1,
                                           [acc EXCEPT !.driving_time = @ + dt])
            ELSE PhaseTimes_RestIsOverhead(phases, idx + 1,
                                           [acc EXCEPT !.overhead = @ + dt])

\* The inner loop of analyze_parking_phases over the phases of one trip:
\* the time of the phases described by a car, and the time of the phases
\* described by a pedestrian or by parking; any other phase counts nowhere.
RECURSIVE PhaseTimes(_, _, _)
PhaseTimes(phases, idx, acc) ==
    IF idx > Len(phases) THEN acc
    ELSE LET ph == phases[idx]
             dt == Unwrap(ph.end_time) - ph.start_time
         IN IF starts_with(ph.description, CAR_PREFIX)
            THEN PhaseTimes(phases, idx + 1, [acc EXCEPT !.driving_time = @ + dt])
            ELSE IF \/ ph.description = PARKING_ELSEWHERE
                    \/ ph.description = PARKING_HERE
                    \/ starts_with(ph.description, PED_PREFIX)
            THEN PhaseTimes(phases, idx + 1, [acc EXCEPT !.overhead = @ + dt])
            ELSE PhaseTimes(phases, idx + 1, acc)

\* The outer loop of analyze_parking_phases, over the trips in key order.
\* A trip without any phase makes `phases.last().unwrap()` panic; a trip
\* whose last phase is open is skipped; so is a trip whose driving time or
\* overhead is zero; any other trip adds overhead / (driving + overhead).
\* distrib holds the samples in the order they were added, each with the
\* trip it came from.
RECURSIVE ParkingLoop(_, _, _)
ParkingLoop(trips, k, distrib) ==
    IF k > Len(TripOrder) THEN [ok |-> TRUE, distrib |-> distrib]
    ELSE LET id == TripOrder[k] IN
         IF id \notin DOMAIN trips THEN ParkingLoop(trips, k + 1, distrib)
         ELSE LET phases == trips[id] IN
              IF phases = <<>> THEN [ok |-> FALSE, distrib |-> distrib]
              ELSE IF phases[Len(phases)].end_time = None
              THEN ParkingLoop(trips, k + 1, distrib)
              ELSE LET acc == PhaseTimes(phases, 1, [driving_time |-> 0, overhead |-> 0]) IN
                   IF acc.driving_time = 0 \/ acc.overhead = 0
                   THEN ParkingLoop(trips, k + 1, distrib)
                   ELSE ParkingLoop(trips, k + 1,
                            Append(distrib,
                                   [trip |-> id,
                                    pct |-> Fraction(acc.overhead,
                                                     acc.driving_time + acc.overhead)]))

analyze_parking_phases == ParkingLoop(get_all_trip_phases, 1, <<>>)

(* ------------------------- delays in a time range ---------------------- *)

\* The loop of intersection_delays: a delay measured before t1 is skipped,
\* the first one measured after t2 ends the scan, any other is added.
RECURSIVE DelaysBetweenLoop(_, _, _, _, _)
DelaysBetweenLoop(list, idx, t1, t2, delays) ==
    IF idx > Len(list) THEN delays
    ELSE LET rec == list[idx] IN
         IF rec.t < t1 THEN DelaysBetweenLoop(list, idx + 1, t1, t2, delays)
         ELSE IF rec.t > t2 THEN delays
         ELSE DelaysBetweenLoop(list, idx + 1, t1, t2, Push(delays, rec.dt))

intersection_delays_query(i, t1, t2) ==
    IF i \in DOMAIN intersection_delays
    THEN DelaysBetweenLoop(intersection_delays[i], 1, t1, t2, <<>>)
    ELSE <<>>

(* ---------------------------- finished trips --------------------------- *)
(* A DurationHistogram is the sequence of the samples added to it.         *)

\* The loop of finished_trips: it stops at the first record later than now
\* and adds the duration of every record of the mode.
RECURSIVE FinishedLoop(_, _, _, _, _)
FinishedLoop(list, idx, now, mode, distrib) ==
    IF idx > Len(list) THEN distrib
    ELSE LET rec == list[idx] IN
         IF rec.t > now THEN distrib
         ELSE IF rec.m = Some(mode)
         THEN FinishedLoop(list, idx + 1, now, mode, Push(distrib, rec.dt))
         ELSE FinishedLoop(list, idx + 1, now, mode, distrib)

finished_trips_query(now, mode) == FinishedLoop(finished_trips, 1, now, mode, <<>>)

\* Variant of the loop of all_finished_trips in which an aborted trip also
\* adds its (zero) duration to the distribution of all trips.
RECURSIVE AllFinishedLoop_AbortedSampled(_, _, _, _)
AllFinishedLoop_AbortedSampled(list, idx, now, acc) ==
    IF idx > Len(list) THEN acc
    ELSE LET rec == list[idx] IN
         IF rec.t > now THEN acc
         ELSE IF rec.m # None
         THEN AllFinishedLoop_AbortedSampled(list, idx + 1, now,
                  [acc EXCEPT !.all = Push(@, rec.dt),
                              !.per_mode[Unwrap(rec.m)] = Push(@, rec.dt)])
         ELSE AllFinishedLoop_AbortedSampled(list, idx + 1, now,
                  [acc EXCEPT !.all = Push(@, rec.dt), !.num_aborted = @ + 1])

\* The loop of all_finished_trips: it stops at the first record later than
\* now; a record with a mode adds its duration to all and to the entry of
\* its mode, a record without one is counted as aborted.
RECURSIVE AllFinishedLoop(_, _, _, _)
AllFinishedLoop(list, idx, now, acc) ==
    IF idx > Len(list) THEN acc
    ELSE LET rec == list[idx] IN
         IF rec.t > now THEN acc
         ELSE IF rec.m # None
         THEN AllFinishedLoop(list, idx + 1, now,
                  [acc EXCEPT !.all = Push(@, rec.dt),
                              !.per_mode[Unwrap(rec.m)] = Push(@, rec.dt)])
         ELSE AllFinishedLoop(list, idx + 1, now, [acc EXCEPT !.num_aborted = @ + 1])

all_finished_trips(now) ==
    AllFinishedLoop(finished_trips, 1, now,
                    [all |-> <<>>, num_aborted |-> 0,
                     per_mode |-> [m \in TripModes |-> <<>>]])

(* ------------------------------ the calls ------------------------------ *)

Init ==
    /\ cars = ParkingSimStateNew.cars
    /\ lanes = ParkingSimStateNew.lanes
    /\ reserved_spots = ParkingSimStateNew.reserved_spots
    /\ panicked = FALSE
    /\ last = [op |-> "new"]
    /\ pc = [a \in CarIDs |-> "idle"]
    /\ target = [a \in CarIDs |-> None]
    /\ clock = START_OF_DAY
    /\ count_per_road = AnalyticsNew.count_per_road
    /\ count_per_intersection = AnalyticsNew.count_per_intersection
    /\ raw_per_road = AnalyticsNew.raw_per_road
    /\ raw_per_intersection = AnalyticsNew.raw_per_intersection
    /\ bus_arrivals = AnalyticsNew.bus_arrivals
    /\ total_bus_passengers = AnalyticsNew.total_bus_passengers
    /\ finished_trips = AnalyticsNew.finished_trips
    /\ trip_log = AnalyticsNew.trip_log
    /\ intersection_delays = AnalyticsNew.intersection_delays

GetFreeSpots ==
    \E lane \in LaneIDs :
        /\ ~panicked
        /\ last' = [op |-> "get_free_spots", lane |-> lane, result |-> get_free_spots(lane)]
        /\ UNCHANGED <<allocVars, agentVars, anaVars>>

GetFirstFreeSpot ==
    \E parking_pos \in Positions, vehicle \in Vehicles :
        /\ ~panicked
        /\ last' = [op |-> "get_first_free_spot", parking_pos |-> parking_pos,
                    vehicle |-> vehicle,
                    result |-> get_first_free_spot(parking_pos, vehicle)]
        /\ UNCHANGED <<allocVars, agentVars, anaVars>>

ReserveSpot ==
    \E spot \in AllSpots :
        /\ ~panicked
        /\ reserve_spot(spot)
        /\ UNCHANGED <<agentVars, anaVars>>

AddParkedCar ==
    \E p \in ParkedCars :
        /\ ~panicked
        /\ add_parked_car(p)
        /\ UNCHANGED <<agentVars, anaVars>>

RemoveParkedCar ==
    \E p \in ParkedCars :
        /\ ~panicked
        /\ remove_parked_car(p)
        /\ UNCHANGED <<agentVars, anaVars>>

Next ==
    \/ GetFreeSpots
    \/ GetFirstFreeSpot
    \/ ReserveSpot
    \/ AddParkedCar
    \/ RemoveParkedCar

Spec == Init /\ [][Next]_vars

(* ------------------- agents following the protocol --------------------- *)
(* Each vehicle is an agent that looks for a stall, reserves the stall it  *)
(* was offered, commits to it on arrival and later departs.  The calls of  *)
(* different agents interleave freely.                                     *)

AgentLook(a) ==
    \E parking_pos \in Positions :
        LET r == get_first_free_spot(parking_pos, Vehicle(a))
        IN  /\ ~panicked
            /\ pc[a] = "idle"
            /\ target' = [target EXCEPT ![a] = r]
            /\ pc' = [pc EXCEPT ![a] = IF r = None THEN "idle" ELSE "found"]
            /\ last' = [op |-> "get_first_free_spot", parking_pos |-> parking_pos,
                        vehicle |-> Vehicle(a), result |-> r]
            /\ UNCHANGED <<allocVars, anaVars>>

AgentReserve(a) ==
    /\ ~panicked
    /\ pc[a] = "found"
    /\ reserve_spot(Unwrap(target[a]))
    /\ pc' = [pc EXCEPT ![a] = "reserved"]
    /\ UNCHANGED <<target, anaVars>>

AgentCommit(a) ==
    /\ ~panicked
    /\ pc[a] = "reserved"
    /\ add_parked_car([vehicle |-> Vehicle(a), spot |-> Unwrap(target[a])])
    /\ pc' = [pc EXCEPT ![a] = IF panicked' THEN "reserved" ELSE "parked"]
    /\ UNCHANGED <<target, anaVars>>

AgentDepart(a) ==
    /\ ~panicked
    /\ pc[a] = "parked"
    /\ remove_parked_car(cars[a])
    /\ pc' = [pc EXCEPT ![a] = "idle"]
    /\ target' = [target EXCEPT ![a] = None]
    /\ UNCHANGED anaVars

\* An agent abandons its reservation: it never calls commit, and makes no
\* call at all (the allocator has no operation that cancels a reservation).
AgentAbandon(a) ==
    /\ ~panicked
    /\ pc[a] = "reserved"
    /\ pc' = [pc EXCEPT ![a] = "idle"]
    /\ target' = [target EXCEPT ![a] = None]
    /\ last' = [op |-> "abandon", agent |-> a, spot |-> Unwrap(target[a])]
    /\ UNCHANGED <<allocVars, anaVars>>

NextAgents ==
    \E a \in CarIDs :
        \/ AgentLook(a)
        \/ AgentReserve(a)
        \/ AgentCommit(a)
        \/ AgentDepart(a)
        \/ AgentAbandon(a)

SpecAgents == Init /\ [][NextAgents]_vars

\* The simulation keeps stepping its agents as long as one of them can act.
SpecAgentsFair == SpecAgents /\ WF_vars(NextAgents)

(* ----------------------- recording and querying ----------------------- *)
(* The simulation records events at its current time, which never goes     *)
(* back; the throughput queries may be asked about any now.                *)

RecordEvent ==
    \E ev \in Events, time \in Times :
        /\ Len(raw_per_road) + Len(raw_per_intersection) < MaxEvents
        /\ time >= clock
        /\ event(ev, time)
        /\ clock' = time
        /\ last' = [op |-> "event", ev |-> ev, time |-> time]
        /\ UNCHANGED <<allocVars, agentVars>>

ThroughputRoad ==
    \E now \in Times, road \in Roads, bucket \in BucketWidths :
        /\ last' = [op |-> "throughput_road", now |-> now, id |-> road,
                    bucket |-> bucket,
                    result |-> throughput_road(now, road, bucket),
                    placed |-> RoadWalk(now, road, bucket).placed]
        /\ UNCHANGED <<allocVars, agentVars, anaVars>>

ThroughputIntersection ==
    \E now \in Times, intersection \in Intersections, bucket \in BucketWidths :
        /\ last' = [op |-> "throughput_intersection", now |-> now, id |-> intersection,
                    bucket |-> bucket,
                    result |-> throughput_intersection(now, intersection, bucket),
                    placed |-> IntersectionWalk(now, intersection, bucket).placed]
        /\ UNCHANGED <<allocVars, agentVars, anaVars>>

NextAnalytics == RecordEvent \/ ThroughputRoad \/ ThroughputIntersection

SpecAnalytics == Init /\ [][NextAnalytics]_vars

(* The road-throughput scenario: five road-entry events for one road at    *)
(* fixed times, by agents of any kind, then the query.                     *)

ScenarioRoad == "r0"
ScenarioTimes == <<0, 50, 130, 250, 1205>>
ScenarioArgs == [now |-> 1205, bucket |-> 600]

ScenarioEvent ==
    \E agent \in AgentKinds :
        /\ Len(raw_per_road) < Len(ScenarioTimes)
        /\ LET time == ScenarioTimes[Len(raw_per_road) + 1]
               ev == [type |-> "AgentEntersTraversable", agent |-> agent,
                      to |-> [kind |-> "Lane", parent |-> ScenarioRoad]]
           IN /\ event(ev, time)
              /\ clock' = time
              /\ last' = [op |-> "event", ev |-> ev, time |-> time]
        /\ UNCHANGED <<allocVars, agentVars>>

ScenarioQuery ==
    /\ Len(raw_per_road) = Len(ScenarioTimes)
    /\ last' = [op |-> "throughput_road", now |-> ScenarioArgs.now, id |-> ScenarioRoad,
                bucket |-> ScenarioArgs.bucket,
                result |-> throughput_road(ScenarioArgs.now, ScenarioRoad,
                                           ScenarioArgs.bucket),
                placed |-> RoadWalk(ScenarioArgs.now, ScenarioRoad,
                                    ScenarioArgs.bucket).placed]
    /\ UNCHANGED <<allocVars, agentVars, anaVars>>

NextScenario == ScenarioEvent \/ ScenarioQuery

SpecScenario == Init /\ [][NextScenario]_vars

(* Delays measured at an intersection, next to the agents entering its     *)
(* turns and a road.                                                       *)

DelayValues == {1, 2}

DelayEvents ==
    [type : {"AgentEntersTraversable"}, agent : EventAgents,
     to : [kind : {"Turn"}, parent : Intersections]]
    \cup [type : {"AgentEntersTraversable"}, agent : {"Pedestrian"},
          to : [kind : {"Lane"}, parent : {"r0"}]]
    \cup [type : {"IntersectionDelayMeasured"}, id : Intersections, delay : DelayValues]

\* The number of entries of the delay lists of all intersections.
RECURSIVE NumDelays(_)
NumDelays(ids) ==
    IF ids = {} THEN 0
    ELSE LET i == CHOOSE i \in ids : TRUE IN
         Len(intersection_delays[i]) + NumDelays(ids \ {i})

RecordDelay ==
    \E ev \in DelayEvents, time \in Times :
        /\ Len(raw_per_road) + Len(raw_per_intersection)
               + NumDelays(DOMAIN intersection_delays) < MaxEvents
        /\ time >= clock
        /\ event(ev, time)
        /\ clock' = time
        /\ last' = [op |-> "event", ev |-> ev, time |-> time]
        /\ UNCHANGED <<allocVars, agentVars>>

IntersectionDelaysBucketized ==
    \E now \in Times, i \in Intersections, bucket \in BucketWidths :
        /\ last' = [op |-> "intersection_delays_bucketized", now |-> now, id |-> i,
                    bucket |-> bucket,
                    result |-> intersection_delays_bucketized(now, i, bucket)]
        /\ UNCHANGED <<allocVars, agentVars, anaVars>>

NextDelays == RecordDelay \/ IntersectionDelaysBucketized

SpecDelays == Init /\ [][NextDelays]_vars

(* Events of every kind, recorded at the simulation's current time.        *)

LogEvents ==
    [type : {"AgentEntersTraversable"}, agent : {"Pedestrian"}, to : Traversables]
    \cup [type : {"BusArrivedAtStop"}, bus : {"b0"}, route : {"br0"}, stop : {"s0"}]
    \cup [type : {"PedEntersBus"}, route : {"br0"}]
    \cup [type : {"TripFinished"}, id : {"t0"}, mode : {"Walk"}, dt : {1}]
    \cup [type : {"TripAborted"}, id : {"t0"}]
    \cup [type : {"IntersectionDelayMeasured"}, id : Intersections, delay : {1}]
    \cup [type : {"TripPhaseStarting"}, id : {"t0"}, maybe_req : {None},
          metadata : {"PedestrianID(0)"}]

\* The number of event calls that left a trace (a finished or aborted trip
\* is in finished_trips and in trip_log; it is counted once).
NumRecorded ==
    Len(raw_per_road) + Len(raw_per_intersection) + Len(bus_arrivals)
        + total_bus_passengers["br0"] + total_bus_passengers["br1"]
        + Len(trip_log) + NumDelays(DOMAIN intersection_delays)

RecordLog ==
    \E ev \in LogEvents, time \in Times :
        /\ NumRecorded < MaxEvents
        /\ time >= clock
        /\ event(ev, time)
        /\ clock' = time
        /\ last' = [op |-> "event", ev |-> ev, time |-> time]
        /\ UNCHANGED <<allocVars, agentVars>>

NextLog == RecordLog

SpecLog == Init /\ [][NextLog]_vars

(* The trip log: phases of two trips starting, trips finishing or being    *)
(* aborted, each at the current time or one second later.                  *)

MaxTripEvents == 4

TripEvents ==
    [type : {"TripPhaseStarting"}, id : {"t0"}, maybe_req : {Some("req")},
     metadata : {"PedestrianID(0)", "CarID(0)"}]
    \cup [type : {"TripPhaseStarting"}, id : {"t0"}, maybe_req : {None},
          metadata : {"waiting for bus"}]
    \cup [type : {"TripPhaseStarting"}, id : {"t1"}, maybe_req : {Some("req")},
          metadata : {"PedestrianID(0)"}]
    \cup [type : {"TripFinished"}, id : {"t0"}, mode : {"Drive"}, dt : {1}]
    \cup [type : {"TripAborted"}, id : {"t0"}]

RecordTrip ==
    \E ev \in TripEvents, time \in Times :
        /\ Len(trip_log) < MaxTripEvents
        /\ time >= clock
        /\ time <= clock + 1
        /\ event(ev, time)
        /\ clock' = time
        /\ last' = [op |-> "event", ev |-> ev, time |-> time]
        /\ UNCHANGED <<allocVars, agentVars>>

GetTripPhases ==
    \E trip \in TripIDs :
        /\ last' = [op |-> "get_trip_phases", trip |-> trip,
                    result |-> get_trip_phases(trip)]
        /\ UNCHANGED <<allocVars, agentVars, anaVars>>

AnalyzeParkingPhases ==
    /\ last' = [op |-> "analyze_parking_phases",
                ok |-> analyze_parking_phases.ok,
                distrib |-> analyze_parking_phases.distrib]
    /\ UNCHANGED <<allocVars, agentVars, anaVars>>

NextTrips == RecordTrip \/ GetTripPhases \/ AnalyzeParkingPhases

SpecTrips == Init /\ [][NextTrips]_vars

(* Buses arriving at the stops of their routes, next to the log of a trip. *)

BusEvents ==
    [type : {"BusArrivedAtStop"}, bus : BusIDs, route : {"br0"}, stop : BusStops]
    \cup [type : {"BusArrivedAtStop"}, bus : {"b1"}, route : {"br1"}, stop : {"s0"}]
    \cup [type : {"TripPhaseStarting"}, id : {"t0"}, maybe_req : {Some("req")},
          metadata : {"PedestrianID(0)"}]
    \cup [type : {"TripFinished"}, id : {"t0"}, mode : {"Walk"}, dt : {1}]

RecordBus ==
    \E ev \in BusEvents, time \in Times :
        /\ NumRecorded < MaxEvents
        /\ time >= clock
        /\ event(ev, time)
        /\ clock' = time
        /\ last' = [op |-> "event", ev |-> ev, time |-> time]
        /\ UNCHANGED <<allocVars, agentVars>>

BusArrivals ==
    \E now \in Times, r \in BusRoutes :
        /\ last' = [op |-> "bus_arrivals", now |-> now, r |-> r,
                    result |-> bus_arrivals_query(now, r)]
        /\ UNCHANGED <<allocVars, agentVars, anaVars>>

BusArrivalsOverTime ==
    \E now \in Times, r \in BusRoutes :
        /\ last' = [op |-> "bus_arrivals_over_time", now |-> now, r |-> r,
                    result |-> bus_arrivals_over_time(now, r)]
        /\ UNCHANGED <<allocVars, agentVars, anaVars>>

NextBus == RecordBus \/ BusArrivals \/ BusArrivalsOverTime \/ GetTripPhases

SpecBus == Init /\ [][NextBus]_vars

(* ----------------- finished trips and their statistics ---------------- *)

\* The durations a trip is finished with.
TripDurations == {1, 2}

FinishEvents ==
    [type : {"TripFinished"}, id : {"t0"}, mode : {"Walk", "Drive"}, dt : TripDurations]
    \cup [type : {"TripAborted"}, id : {"t1"}]

RecordFinish ==
    \E ev \in FinishEvents, time \in Times :
        /\ Len(finished_trips) < MaxEvents
        /\ time >= clock
        /\ event(ev, time)
        /\ clock' = time
        /\ last' = [op |-> "event", ev |-> ev, time |-> time]
        /\ UNCHANGED <<allocVars, agentVars>>

FinishedTrips ==
    \E now \in Times, mode \in TripModes :
        /\ last' = [op |-> "finished_trips", now |-> now, mode |-> mode,
                    result |-> finished_trips_query(now, mode)]
        /\ UNCHANGED <<allocVars, agentVars, anaVars>>

AllFinishedTrips ==
    \E now \in Times :
        /\ last' = [op |-> "all_finished_trips", now |-> now,
                    result |-> all_finished_trips(now)]
        /\ UNCHANGED <<allocVars, agentVars, anaVars>>

NextFinished == RecordFinish \/ FinishedTrips \/ AllFinishedTrips

SpecFinished == Init /\ [][NextFinished]_vars

(* ------------------------- saving and restoring ------------------------ *)

\* The Analytics is serialized and the bytes are deserialized into another
\* Analytics; the one in use is left as it is.
SaveLoad ==
    /\ last' = [op |-> "save_load", restored |-> Deserialize(Serialize(AnalyticsState))]
    /\ UNCHANGED <<allocVars, agentVars, anaVars>>

NextSave == RecordLog \/ SaveLoad

SpecSave == Init /\ [][NextSave]_vars

(* ------------------------ every query, both objects ------------------- *)
(* The allocator and the Analytics are separate objects; a behaviour here  *)
(* changes one of them and leaves the other as constructed, and asks every *)
(* query of both.  The Analytics is asked at the current time, as the       *)
(* dashboards do, and an event is recorded one second after the last one.  *)

\* Variant of IsFree that reserves the spot it found free.
IsFree_Reserves ==
    \E spot \in AllSpots :
        /\ ~panicked
        /\ last' = [op |-> "is_free", spot |-> spot, result |-> is_free(spot)]
        /\ reserved_spots' = IF is_free(spot) THEN reserved_spots \cup {spot}
                                              ELSE reserved_spots
        /\ UNCHANGED <<cars, lanes, panicked, agentVars, anaVars>>

IsFree ==
    \E spot \in AllSpots :
        /\ ~panicked
        /\ last' = [op |-> "is_free", spot |-> spot, result |-> is_free(spot)]
        /\ UNCHANGED <<allocVars, agentVars, anaVars>>

GetCarAtSpot ==
    \E spot \in AllSpots :
        /\ ~panicked
        /\ last' = [op |-> "get_car_at_spot", spot |-> spot,
                    ok |-> get_car_at_spot(spot).ok,
                    result |-> get_car_at_spot(spot).result]
        /\ panicked' = ~get_car_at_spot(spot).ok
        /\ UNCHANGED <<cars, lanes, reserved_spots, agentVars, anaVars>>

GetDrawCars ==
    \E id \in LaneIDs :
        /\ ~panicked
        /\ last' = [op |-> "get_draw_cars", id |-> id,
                    ok |-> get_draw_cars(id).ok, result |-> get_draw_cars(id).result]
        /\ panicked' = ~get_draw_cars(id).ok
        /\ UNCHANGED <<cars, lanes, reserved_spots, agentVars, anaVars>>

GetAllDrawCars ==
    /\ ~panicked
    /\ last' = [op |-> "get_all_draw_cars", ok |-> get_all_draw_cars.ok,
                result |-> get_all_draw_cars.result]
    /\ UNCHANGED <<allocVars, agentVars, anaVars>>

IntersectionDelays ==
    \E i \in Intersections, t1 \in Times, t2 \in Times :
        /\ last' = [op |-> "intersection_delays", id |-> i, t1 |-> t1, now |-> t2,
                    result |-> intersection_delays_query(i, t1, t2)]
        /\ UNCHANGED <<allocVars, agentVars, anaVars>>

AllocatorIsNew ==
    /\ cars = ParkingSimStateNew.cars
    /\ lanes = ParkingSimStateNew.lanes
    /\ reserved_spots = ParkingSimStateNew.reserved_spots
    /\ ~panicked

AnalyticsIsNew == AnalyticsState = AnalyticsNew /\ clock = START_OF_DAY

NextQueries ==
    \/ AnalyticsIsNew /\ ReserveSpot
    \/ AnalyticsIsNew /\ AddParkedCar /\ last'.p.vehicle.id = 1
    \/ AnalyticsIsNew /\ RemoveParkedCar /\ last'.p.vehicle.id = 1
    \/ GetFreeSpots
    \/ GetFirstFreeSpot /\ last'.vehicle.id = 1
    \/ IsFree
    \/ GetCarAtSpot
    \/ GetDrawCars
    \/ GetAllDrawCars
    \/ AllocatorIsNew /\ RecordLog /\ last'.time = clock + 1
    \/ ThroughputRoad /\ last'.now = clock
    \/ ThroughputIntersection /\ last'.now = clock
    \/ IntersectionDelays /\ last'.now = clock
    \/ IntersectionDelaysBucketized /\ last'.now = clock
    \/ BusArrivals /\ last'.now = clock
    \/ BusArrivalsOverTime /\ last'.now = clock
    \/ FinishedTrips /\ last'.now = clock
    \/ AllFinishedTrips /\ last'.now = clock
    \/ GetTripPhases
    \/ AnalyzeParkingPhases

SpecQueries == Init /\ [][NextQueries]_vars

(* ------------------------------ f64 ------------------------------------- *)
(* The percentages of the trip table are computed in f64.  A finite value   *)
(* that is not negative is kept as its binary digits: bits[i] weighs        *)
(* 2^(exp - i), the first digit is 1 and there are at most MANTISSA_DIGITS  *)
(* of them, zero being the empty sequence.  The values of the durations met *)
(* here are far from the ends of the exponent range.  Every operation gives *)
(* the exact result rounded to the nearest value, ties to the even one.     *)
(* The operations are functions, so that an argument is a value.            *)

MANTISSA_DIGITS == 53
\* The largest value of the integer type a float is cast to; it stands for
\* usize::MAX and isize::MAX, which only a cast of infinity produces.
USIZE_MAX == 2147483647

Bits == Seq({0, 1})

F64(kind, bits, exp) == [kind |-> kind, bits |-> bits, exp |-> exp]

F64s == [kind : {"num", "nan", "inf"}, bits : Bits, exp : Int]

NAN == F64("nan", <<>>, 0)

INFINITY == F64("inf", <<>>, 0)

ONE == F64("num", <<1>>, 1)

Zeros(n) == [i \in 1 .. n |-> 0]

\* keep + 1 in the last place, for MANTISSA_DIGITS digits keep.
RoundUp[keep \in Bits, e \in Int] ==
    IF \A i \in 1 .. Len(keep) : keep[i] = 1 THEN F64("num", <<1>>, e + 1)
    ELSE LET j == CHOOSE i \in 1 .. Len(keep) :
                      keep[i] = 0 /\ \A k \in i + 1 .. Len(keep) : keep[k] = 1
         IN  F64("num", SubSeq(keep, 1, j - 1) \o <<1>> \o Zeros(Len(keep) - j), e)

\* Digits that start with 1, rounded to MANTISSA_DIGITS of them: to the
\* nearest value, to the even one of two that are as near.
RoundNormal[b \in Bits, e \in Int] ==
    IF Len(b) <= MANTISSA_DIGITS THEN F64("num", b, e)
    ELSE IF /\ b[MANTISSA_DIGITS + 1] = 1
            /\ \/ b[MANTISSA_DIGITS] = 1
               \/ \E i \in MANTISSA_DIGITS + 2 .. Len(b) : b[i] = 1
    THEN RoundUp[SubSeq(b, 1, MANTISSA_DIGITS), e]
    ELSE F64("num", SubSeq(b, 1, MANTISSA_DIGITS), e)

\* The value of the digits, rounded.
Round[bits \in Bits, exp \in Int] ==
    IF \A i \in 1 .. Len(bits) : bits[i] = 0 THEN F64("num", <<>>, 0)
    ELSE LET lead == CHOOSE i \in 1 .. Len(bits) :
                         bits[i] = 1 /\ \A j \in 1 .. i - 1 : bits[j] = 0
         IN  RoundNormal[SubSeq(bits, lead, Len(bits)), exp - (lead - 1)]

\* The first k binary digits of r / d after the point, for 0 <= r < d,
\* followed by a digit that tells whether anything is left after them.
QuotientBits[r \in Nat, d \in Nat, k \in Nat] ==
    IF k = 0 THEN <<IF r # 0 THEN 1 ELSE 0>>
    ELSE <<(2 * r) \div d>> \o QuotientBits[(2 * r) % d, d, k - 1]

\* The binary digits of the whole number n, as many as it needs.
WholeBits[n \in Nat] ==
    IF n = 0 THEN <<>> ELSE WholeBits[n \div 2] \o <<n % 2>>

\* a / b for two whole numbers of seconds.
F64Div[a \in Nat, b \in Nat] ==
    IF b = 0 THEN (IF a = 0 THEN NAN ELSE INFINITY)
    ELSE Round[WholeBits[a \div b] \o QuotientBits[a % b, b, MANTISSA_DIGITS + 8],
               Len(WholeBits[a \div b])]

\* The digits of x - y for digits of the same weights, x >= y.
SubBits[xb \in Bits, yb \in Bits] ==
    [i \in 1 .. Len(xb) |->
        LET d == {j \in i + 1 .. Len(xb) : xb[j] # yb[j]}
            borrow == d # {} /\ \E j \in d : xb[j] = 0 /\ \A k \in d : j <= k
        IN  (2 + xb[i] - yb[i] - (IF borrow THEN 1 ELSE 0)) % 2] \o <<>>

\* The digits of x from the weight 2^(exp - 1) down, n of them.
Aligned[x \in F64s, exp \in Int, n \in Nat] ==
    Zeros(exp - x.exp) \o x.bits \o Zeros(n - (exp - x.exp) - Len(x.bits))

Max(a, b) == IF a >= b THEN a ELSE b

\* x - y for x >= y.
F64Sub[x \in F64s, y \in F64s] ==
    IF x.kind = "nan" \/ y.kind = "nan" \/ (x.kind = "inf" /\ y.kind = "inf") THEN NAN
    ELSE IF x.kind = "inf" THEN INFINITY
    ELSE LET exp == Max(x.exp, y.exp)
             n == Max(exp - x.exp + Len(x.bits), exp - y.exp + Len(y.bits))
         IN  Round[SubBits[Aligned[x, exp, n], Aligned[y, exp, n]], exp]

\* The digits of bits * c + carry.
TimesBits[bits \in Bits, c \in Nat, carry \in Nat] ==
    IF bits = <<>> THEN WholeBits[carry]
    ELSE TimesBits[SubSeq(bits, 1, Len(bits) - 1), c,
                   (bits[Len(bits)] * c + carry) \div 2]
             \o <<(bits[Len(bits)] * c + carry) % 2>>

\* c * x for a whole number c > 0.
F64Mul[c \in Nat, x \in F64s] ==
    IF x.kind # "num" \/ x.bits = <<>> THEN x
    ELSE Round[TimesBits[x.bits, c, 0],
               x.exp + Len(TimesBits[x.bits, c, 0]) - Len(x.bits)]

\* The whole number that the first n digits are.
IntegerPart[bits \in Bits, n \in Int] ==
    IF n <= 0 THEN 0
    ELSE 2 * IntegerPart[bits, n - 1] + (IF n <= Len(bits) THEN bits[n] ELSE 0)

\* `x as usize` and `x as isize` for x that is not negative: the fraction
\* is dropped, NaN gives 0 and infinity the largest value.
AsUsize(x) ==
    CASE x.kind = "nan" -> 0
      [] x.kind = "inf" -> USIZE_MAX
      [] OTHER -> IntegerPart[x.bits, x.exp]

(* ------------------------------ the trip table ------------------------- *)
(* src/game/src/sandbox/dashboards/trip_table.rs.  make reads the finished  *)
(* trips of the Analytics, asks the simulation where each trip started and  *)
(* ended, when it departed and how long it waited, and asks the baseline    *)
(* run, if there is one, how long the trip took there.  A row is kept as    *)
(* the values it prints.  Duration / Duration is the quotient of the two    *)
(* numbers of seconds; what it does with a zero divisor is up to the        *)
(* geometry library: it fails, or it gives the f64 quotient.                *)

\* The durations of the trips and of the baseline, in seconds.
Durations == 0 .. 6

\* (100.0 * waiting / duration_after) as usize
PercentWaiting(waiting, duration_after) ==
    AsUsize(F64Div[100 * waiting, duration_after])

\* (100.0 * (duration_after / duration_before)) as isize
PercentChange(duration_after, duration_before) ==
    AsUsize(F64Mul[100, F64Div[duration_after, duration_before]])

\* (100.0 * (1.0 - (duration_after / duration_before))) as usize
PercentFaster(duration_after, duration_before) ==
    AsUsize(F64Mul[100, F64Sub[ONE, F64Div[duration_after, duration_before]]])

\* (100.0 * ((duration_after / duration_before) - 1.0)) as usize
PercentSlower(duration_after, duration_before) ==
    AsUsize(F64Mul[100, F64Sub[F64Div[duration_after, duration_before], ONE]])

\* The four figures for every pair of durations, computed once.  The first
\* duration is the waiting time or duration_after, the second is
\* duration_after or duration_before.
Figures ==
    [p \in Durations \X Durations |->
        [waiting |-> IF p[1] <= p[2] THEN PercentWaiting(p[1], p[2]) ELSE 0,
         change |-> PercentChange(p[1], p[2]),
         faster |-> IF p[1] < p[2] THEN PercentFaster(p[1], p[2]) ELSE 0,
         slower |-> IF p[1] > p[2] THEN PercentSlower(p[1], p[2]) ELSE 0]] @@ <<>>

ROWS == 20

SortBys == {"Departure", "Duration", "RelativeDuration", "PercentChangeDuration",
            "Waiting", "PercentWaiting"}

\* TripTable::new.
DefaultOptions ==
    [sort_by |-> "PercentWaiting", descending |-> TRUE, modes |-> TripModes,
     off_map_starts |-> TRUE, off_map_ends |-> TRUE, skip |-> 0]

\* The options one click away from those the panel opens with.  The
\* sorting buttons on the change against the baseline exist only with a
\* baseline, and the button to the next page only with more than ROWS + 1
\* trips, so skip stays 0.
Options(has_prebaked) ==
    {[DefaultOptions EXCEPT !.sort_by = s] :
         s \in {k \in SortBys : k \in {"RelativeDuration", "PercentChangeDuration"}
                                     => has_prebaked}}
    \cup {[DefaultOptions EXCEPT !.descending = FALSE],
          [DefaultOptions EXCEPT !.modes = {"Drive"}],
          [DefaultOptions EXCEPT !.off_map_starts = FALSE],
          [DefaultOptions EXCEPT !.off_map_ends = FALSE]}

TableTrips == {"t0", "t1", "t2"}

\* sim.trip_info: the departure and the two ends of the trips of the
\* scenario; t1 starts and t2 ends at a border of the map.
trip_info(id) ==
    CASE id = "t0" -> [departure |-> 2, start |-> "Bldg", end |-> "Bldg"]
      [] id = "t1" -> [departure |-> 0, start |-> "Border", end |-> "Bldg"]
      [] id = "t2" -> [departure |-> 1, start |-> "Bldg", end |-> "Border"]

Entry(trip, mode, departure, duration_after, duration_before, waiting, percent_waiting) ==
    [trip |-> trip, mode |-> mode, departure |-> departure,
     duration_after |-> duration_after, duration_before |-> duration_before,
     waiting |-> waiting, percent_waiting |-> percent_waiting]

\* The loop of make over finished_trips.  waiting gives the time each trip
\* waited; prebaked is None or Some of the durations of the baseline, each
\* None for a trip aborted there.  zero_div counts the divisions by a zero
\* duration.
RECURSIVE GatherLoop(_, _, _, _, _, _)
GatherLoop(list, idx, opts, waiting, prebaked, acc) ==
    IF idx > Len(list) THEN acc
    ELSE LET rec == list[idx]
             info == trip_info(rec.id)
         IN
         IF rec.m = None
         THEN GatherLoop(list, idx + 1, opts, waiting, prebaked,
                         [acc EXCEPT !.aborted = @ + 1])
         ELSE IF Unwrap(rec.m) \notin opts.modes
         THEN GatherLoop(list, idx + 1, opts, waiting, prebaked, acc)
         ELSE IF ~opts.off_map_starts /\ info.start = "Border"
         THEN GatherLoop(list, idx + 1, opts, waiting, prebaked, acc)
         ELSE IF ~opts.off_map_ends /\ info.end = "Border"
         THEN GatherLoop(list, idx + 1, opts, waiting, prebaked, acc)
         ELSE IF prebaked # None /\ Unwrap(prebaked)[rec.id] = None
         THEN GatherLoop(list, idx + 1, opts, waiting, prebaked,
                         [acc EXCEPT !.aborted = @ + 1])
         ELSE LET duration_before == IF prebaked # None
                                     THEN Unwrap(Unwrap(prebaked)[rec.id])
                                     ELSE 0
                  x == Entry(rec.id, Unwrap(rec.m), info.departure, rec.dt,
                             duration_before, waiting[rec.id],
                             Figures[<<waiting[rec.id], rec.dt>>].waiting)
              IN  GatherLoop(list, idx + 1, opts, waiting, prebaked,
                      [acc EXCEPT !.data = Push(@, x),
                                  !.zero_div = @ + (IF rec.dt = 0 THEN 1 ELSE 0)])

\* The key make sorts by.
SortKey(sort_by, x) ==
    CASE sort_by = "Departure" -> x.departure
      [] sort_by = "Duration" -> x.duration_after
      [] sort_by = "RelativeDuration" -> x.duration_after - x.duration_before
      [] sort_by = "PercentChangeDuration" ->
             Figures[<<x.duration_after, x.duration_before>>].change
      [] sort_by = "Waiting" -> x.waiting
      [] sort_by = "PercentWaiting" -> x.percent_waiting

\* slice::sort_by_key: entries with equal keys keep their order.
sort_by_key(data, sort_by) ==
    LET n == Len(data)
        before(j, i) == \/ SortKey(sort_by, data[j]) < SortKey(sort_by, data[i])
                        \/ SortKey(sort_by, data[j]) = SortKey(sort_by, data[i]) /\ j < i
        rank(i) == 1 + Cardinality({j \in 1 .. n : before(j, i)})
    IN  [r \in 1 .. n |-> data[CHOOSE i \in 1 .. n : rank(i) = r]]

reverse(data) == [i \in 1 .. Len(data) |-> data[Len(data) + 1 - i]]

\* What a row prints about the change against the baseline.
Change(x) ==
    IF x.duration_after = x.duration_before THEN [kind |-> "same"]
    ELSE IF x.duration_after < x.duration_before
    THEN [kind |-> "faster",
          pct |-> Figures[<<x.duration_after, x.duration_before>>].faster]
    ELSE [kind |-> "slower",
          pct |-> Figures[<<x.duration_after, x.duration_before>>].slower]

Row(x, has_prebaked) ==
    [trip |-> x.trip, mode |-> x.mode, departure |-> x.departure,
     duration_after |-> x.duration_after,
     change |-> IF has_prebaked THEN Some(Change(x)) ELSE None,
     waiting |-> x.waiting, percent_waiting |-> x.percent_waiting]

\* The sorting of make: the entries gathered, sorted by the key and
\* reversed when descending.  The key of the percent change divides, once
\* for every entry, when there are two entries or more to compare.
Sort(g, opts) ==
    [data |-> IF opts.descending THEN reverse(sort_by_key(g.data, opts.sort_by))
                                 ELSE sort_by_key(g.data, opts.sort_by),
     aborted |-> g.aborted,
     zero_div |-> g.zero_div
                    + (IF opts.sort_by = "PercentChangeDuration" /\ Len(g.data) >= 2
                       THEN Cardinality({i \in 1 .. Len(g.data) :
                                            g.data[i].duration_before = 0})
                       ELSE 0)]

\* The rendering of make: a row for each of the entries shown.  The row of
\* a trip that differs from its baseline divides by duration_before.
Render(shown, has_prebaked) ==
    [rows |-> [i \in 1 .. Len(shown) |-> Row(shown[i], has_prebaked)],
     zero_div |-> IF ~has_prebaked THEN 0
                  ELSE Cardinality({i \in 1 .. Len(shown) :
                                       /\ shown[i].duration_before = 0
                                       /\ shown[i].duration_after # 0})]

\* The page of the table that starts after opts.skip entries.
Page(t, opts, has_prebaked) ==
    [data |-> t.data, total_rows |-> Len(t.data), aborted |-> t.aborted,
     rows |-> Render(SubSeq(t.data, opts.skip + 1,
                            Min(Len(t.data), opts.skip + ROWS)), has_prebaked).rows,
     zero_div |-> t.zero_div
                    + Render(SubSeq(t.data, opts.skip + 1,
                                    Min(Len(t.data), opts.skip + ROWS)),
                             has_prebaked).zero_div]

make(opts, waiting, prebaked) ==
    Page(Sort(GatherLoop(finished_trips, 1, opts, waiting, prebaked,
                         [data |-> <<>>, aborted |-> 0, zero_div |-> 0]), opts),
         opts, prebaked # None)

(* One trip finishes or is aborted each second, no trip twice; the table   *)
(* is made for any options the panel can hold, with what the simulation    *)
(* and the baseline answer about the trips.                                *)

TableEvents ==
    [type : {"TripFinished"}, id : {"t0"}, mode : {"Walk", "Drive"}, dt : {0, 4, 6}]
    \cup [type : {"TripFinished"}, id : {"t1"}, mode : {"Drive"}, dt : {4, 6}]
    \cup [type : {"TripFinished"}, id : {"t2"}, mode : {"Walk"}, dt : {6}]
    \cup [type : {"TripAborted"}, id : {"t1"}]

\* The time every trip waited, as sim.finished_trip_time tells it.
Waitings == {[id \in TableTrips |-> w] : w \in {0, 3}}

\* app.has_prebaked with the answers of prebaked().finished_trip_time.
Baselines ==
    {None,
     Some([id \in TableTrips |-> Some(5)]),
     Some([id \in TableTrips |-> CASE id = "t0" -> Some(0)
                                   [] id = "t1" -> None
                                   [] id = "t2" -> Some(6)])}

RecordTable ==
    \E ev \in TableEvents :
        /\ Len(finished_trips) < MaxEvents
        /\ clock < MaxTime
        /\ \A i \in 1 .. Len(finished_trips) : finished_trips[i].id # ev.id
        /\ event(ev, clock + 1)
        /\ clock' = clock + 1
        /\ last' = [op |-> "event", ev |-> ev, time |-> clock + 1]
        /\ UNCHANGED <<allocVars, agentVars>>

\* What a call of make leaves in last: the table r, or nothing of it when
\* the call failed.
MadeTable(opts, waiting, prebaked, zero_fails, r) ==
    [op |-> "make", opts |-> opts, waiting |-> waiting, prebaked |-> prebaked,
     ok |-> ~zero_fails, zero_div |-> r.zero_div,
     data |-> IF zero_fails THEN <<>> ELSE r.data,
     rows |-> IF zero_fails THEN <<>> ELSE r.rows,
     total_rows |-> IF zero_fails THEN 0 ELSE r.total_rows,
     aborted |-> IF zero_fails THEN 0 ELSE r.aborted]

\* A trip waits no longer than it takes.  A division by a zero duration
\* either fails, and then there is no table, or gives the f64 quotient.
MakeTable ==
    \E prebaked \in Baselines, waiting \in Waitings, zero_fails \in BOOLEAN :
        \E opts \in Options(prebaked # None) :
            /\ \A i \in 1 .. Len(finished_trips) :
                   finished_trips[i].m # None
                       => waiting[finished_trips[i].id] <= finished_trips[i].dt
            /\ last' = MadeTable(opts, waiting, prebaked, zero_fails,
                                 make(opts, waiting, prebaked))
            /\ zero_fails => last'.zero_div > 0
            /\ UNCHANGED <<allocVars, agentVars, anaVars>>

NextTable == RecordTable \/ MakeTable

SpecTable == Init /\ [][NextTable]_vars

(* ------------------------------ properties ----------------------------- *)

Occupant(spot) == lanes[spot.lane].occupants[spot.idx]

IsOccupied(spot) == Occupant(spot) # None

IsReserved(spot) == spot \in reserved_spots

Range(seq) == {seq[i] : i \in 1 .. Len(seq)}

OccupiedCount(lane) ==
    Cardinality({idx \in DOMAIN lanes[lane].occupants : lanes[lane].occupants[idx] # None})

FrontDist(spot, vehicle) == dist_along_for_car(lanes[spot.lane].spots[spot.idx], vehicle)

\* C1: a reserve call on a spot that already carries a reservation is a hard
\* failure: it never returns normally.
C1_DoubleReserveIsFatal ==
    (last.op = "reserve_spot" /\ last.was_reserved) => panicked

\* C2: among agents that each run first_free_spot, then reserve, then commit,
\* no two ever hold a claim (a reservation or an occupancy) on the same stall.
HoldsClaim(a, spot) == pc[a] \in {"reserved", "parked"} /\ target[a] = Some(spot)

C2_NoStallClaimedTwice ==
    \A a \in CarIDs, b \in CarIDs, spot \in AllSpots :
        a # b => ~(HoldsClaim(a, spot) /\ HoldsClaim(b, spot))

\* C3: while a spot is occupied (committed and not yet released) it is not
\* among the free spots of its lane, and no reserve call on it is accepted.
C3_CommittedSpotUnavailable ==
    /\ \A spot \in AllSpots :
          IsOccupied(spot) => spot \notin Range(get_free_spots(spot.lane))
    /\ (last.op = "reserve_spot" /\ last.was_occupant # None) => panicked

\* C4: every slot is Free, Reserved or Occupied and never both occupied and
\* reserved, and a step moves a slot only along Free -> Reserved,
\* Reserved -> Occupied, Reserved -> Free or Occupied -> Free.
SlotState(spot) ==
    IF IsOccupied(spot) /\ IsReserved(spot) THEN "OccupiedAndReserved"
    ELSE IF IsOccupied(spot) THEN "Occupied"
    ELSE IF IsReserved(spot) THEN "Reserved"
    ELSE "Free"

SlotMoves == {<<"Free", "Reserved">>, <<"Reserved", "Occupied">>,
              <<"Reserved", "Free">>, <<"Occupied", "Free">>}

C4_SlotStateMachine ==
    [][\A spot \in AllSpots :
          /\ SlotState(spot)' \in {"Free", "Reserved", "Occupied"}
          /\ \/ SlotState(spot)' = SlotState(spot)
             \/ <<SlotState(spot), SlotState(spot)'>> \in SlotMoves]_vars

\* C5: a commit returns normally exactly when the spot was reserved and had no
\* occupant; it then has consumed the reservation and recorded the vehicle as
\* the occupant; otherwise it is fatal and the occupant of the spot is as before.
C5_CommitChecked ==
    last.op = "add_parked_car" =>
        /\ last.ok <=> (last.was_reserved /\ last.was_occupant = None)
        /\ last.ok =>
              /\ ~panicked
              /\ ~IsReserved(last.p.spot)
              /\ Occupant(last.p.spot) = Some(last.p.vehicle.id)
              /\ last.p.vehicle.id \in DOMAIN cars
              /\ cars[last.p.vehicle.id] = last.p
        /\ ~last.ok =>
              /\ panicked
              /\ Occupant(last.p.spot) = last.was_occupant

C5_Witness ==
    /\ last.op = "add_parked_car"
    /\ ~last.ok
    /\ last.was_reserved
    /\ last.was_occupant # None
    /\ last.was_occupant # Some(last.p.vehicle.id)

\* C6: for every lane, the occupied slots plus the spots returned by
\* free_spots number as many as the spots the lane was constructed with.
C6_OccupiedPlusFree ==
    \A lane \in LaneIDs :
        OccupiedCount(lane) + Len(get_free_spots(lane))
            = number_parking_spots(all_lanes(lane))

C6_Witness ==
    /\ last.op = "get_free_spots"
    /\ last.lane = 0
    /\ Len(last.result) = 2
    /\ OccupiedCount(0) = 1
    /\ \E spot \in Range(last.result) : IsReserved(spot)

\* C7: first_free_spot never returns a spot whose front distance for the
\* querying vehicle is strictly less than the query distance.
C7_NeverBehind ==
    /\ \A parking_pos \in Positions, vehicle \in Vehicles :
          \A spot \in get_first_free_spot(parking_pos, vehicle) :
              ~(FrontDist(spot, vehicle) < parking_pos.dist_along)
    /\ last.op = "get_first_free_spot" =>
          \A spot \in last.result :
              ~(FrontDist(spot, last.vehicle) < last.parking_pos.dist_along)

C7_Witness ==
    /\ last.op = "get_first_free_spot"
    /\ last.result = Some(ParkingSpot(0, 1))
    /\ is_free(ParkingSpot(0, 0))
    /\ FrontDist(ParkingSpot(0, 0), last.vehicle) < last.parking_pos.dist_along

\* C8: first_free_spot returns the spot of smallest index that is unoccupied,
\* unreserved and at or beyond the query distance, and nothing exactly when
\* the lane has no such spot.
Candidates(parking_pos, vehicle) ==
    {spot \in AllSpots :
        /\ spot.lane = parking_pos.lane
        /\ ~IsOccupied(spot)
        /\ ~IsReserved(spot)
        /\ parking_pos.dist_along <= FrontDist(spot, vehicle)}

IsFirstFit(result, parking_pos, vehicle) ==
    LET cand == Candidates(parking_pos, vehicle)
    IN  /\ result = None <=> cand = {}
        /\ \A spot \in result :
              /\ spot \in cand
              /\ \A other \in cand : spot.idx <= other.idx

C8_FirstFit ==
    /\ \A parking_pos \in Positions, vehicle \in Vehicles :
          IsFirstFit(get_first_free_spot(parking_pos, vehicle), parking_pos, vehicle)
    /\ last.op = "get_first_free_spot" =>
          IsFirstFit(last.result, last.parking_pos, last.vehicle)

C8_Witness ==
    /\ last.op = "get_first_free_spot"
    /\ last.result = Some(ParkingSpot(0, 2))
    /\ IsReserved(ParkingSpot(0, 0))
    /\ ~IsOccupied(ParkingSpot(0, 0))
    /\ IsOccupied(ParkingSpot(0, 1))
    /\ last.parking_pos.dist_along <= FrontDist(ParkingSpot(0, 0), last.vehicle)

\* C9: on the 3-stall lane with stall 1 occupied by vehicle A, a query by
\* another vehicle B from before stall 0 returns stall 0 when stall 0 is free,
\* otherwise stall 2 when that is free, otherwise nothing; never stall 1.
C9_Scenario ==
    (/\ last.op = "get_first_free_spot"
     /\ last.parking_pos.lane = 0
     /\ IsOccupied(ParkingSpot(0, 1))
     /\ Occupant(ParkingSpot(0, 1)) # Some(last.vehicle.id)
     /\ last.parking_pos.dist_along <= FrontDist(ParkingSpot(0, 0), last.vehicle))
    => /\ last.result # Some(ParkingSpot(0, 1))
       /\ last.result = IF is_free(ParkingSpot(0, 0)) THEN Some(ParkingSpot(0, 0))
                        ELSE IF is_free(ParkingSpot(0, 2)) THEN Some(ParkingSpot(0, 2))
                        ELSE None

C9_Witness ==
    /\ last.op = "get_first_free_spot"
    /\ last.parking_pos.lane = 0
    /\ Occupant(ParkingSpot(0, 1)) = Some(1)
    /\ last.vehicle.id = 2
    /\ last.parking_pos.dist_along <= FrontDist(ParkingSpot(0, 0), last.vehicle)
    /\ is_free(ParkingSpot(0, 0))
    /\ last.result = Some(ParkingSpot(0, 0))

\* C10: releasing a car that occupies the slot its record names clears exactly
\* that slot and removes the car's record, and leaves the reservations and
\* the occupancy of every other slot unchanged.
C10_ReleaseClearsNamedSlot ==
    [][(/\ last'.op = "remove_parked_car"
        /\ last'.p.vehicle.id \in DOMAIN cars
        /\ cars[last'.p.vehicle.id] = last'.p
        /\ Occupant(last'.p.spot) = Some(last'.p.vehicle.id))
       => /\ lanes' = [lanes EXCEPT
                         ![last'.p.spot.lane].occupants[last'.p.spot.idx] = None]
          /\ cars' = MapRemove(cars, last'.p.vehicle.id)
          /\ reserved_spots' = reserved_spots]_vars

\* C11: a release whose named slot is not occupied by the vehicle of the
\* ParkedCar is fatal: it never returns normally.
C11_ReleaseMismatchIsFatal ==
    (/\ last.op = "remove_parked_car"
     /\ last.was_occupant # Some(last.p.vehicle.id))
    => panicked

\* C12: a reservation never expires: a reserved spot stays reserved, is not
\* free and is not returned by first_free_spot, over every step that is not a
\* commit on that spot.
NotOffered(spot) ==
    /\ ~is_free(spot)
    /\ \A parking_pos \in Positions, vehicle \in Vehicles :
          get_first_free_spot(parking_pos, vehicle) # Some(spot)

C12_ReservationNeverExpires ==
    [][\A spot \in AllSpots :
          (/\ IsReserved(spot)
           /\ ~(last'.op = "add_parked_car" /\ last'.p.spot = spot))
          => (IsReserved(spot) /\ NotOffered(spot))']_vars

C12_Witness ==
    /\ last.op = "remove_parked_car"
    /\ last.ok
    /\ IsReserved(last.p.spot)
    /\ ~IsOccupied(last.p.spot)
    /\ \E vehicle \in Vehicles :
          get_first_free_spot([lane |-> 0, dist_along |-> 0], vehicle)
              \notin {None, Some(last.p.spot)}

\* C13: a reserved slot whose reservation is abandoned (no agent is left that
\* will commit to it) returns to Free, so that it can be offered again.
Abandoned(spot) ==
    /\ IsReserved(spot)
    /\ ~IsOccupied(spot)
    /\ \A a \in CarIDs : ~(pc[a] = "reserved" /\ target[a] = Some(spot))

C13_AbandonedReturnsToFree ==
    \A spot \in AllSpots : [](Abandoned(spot) => <>is_free(spot))

\* C14: free_spots returns exactly the slots of the lane that have no
\* occupant (reserved ones included), each once, in ascending index order,
\* and nothing for a lane that is not a parking lane.
IsFreeSpotsOf(result, lane) ==
    /\ \A i \in 1 .. Len(result) - 1 : result[i].idx < result[i + 1].idx
    /\ Range(result) = {spot \in AllSpots : spot.lane = lane /\ ~IsOccupied(spot)}
    /\ all_lanes(lane).lane_type # "Parking" => result = <<>>

C14_FreeSpotsExact ==
    /\ \A lane \in LaneIDs : IsFreeSpotsOf(get_free_spots(lane), lane)
    /\ last.op = "get_free_spots" => IsFreeSpotsOf(last.result, last.lane)

C14_Witness ==
    /\ last.op = "get_free_spots"
    /\ last.lane = 0
    /\ last.result = <<ParkingSpot(0, 0), ParkingSpot(0, 2)>>
    /\ IsReserved(ParkingSpot(0, 0))

(* ------------------------ throughput properties ------------------------ *)

IsThroughputQuery == last.op \in {"throughput_road", "throughput_intersection"}

\* The raw log the last query walked.
QueriedLog ==
    IF last.op = "throughput_road" THEN raw_per_road ELSE raw_per_intersection

\* The positions of the log that hold a record of the queried locus.
LocusRecords == {i \in 1 .. Len(QueriedLog) : QueriedLog[i].id = last.id}

RECURSIVE SumPoints(_)
SumPoints(series) ==
    IF series = <<>> THEN 0 ELSE series[1].n + SumPoints(Tail(series))

SumAll(result) ==
    SumPoints(result["Walk"]) + SumPoints(result["Bike"])
        + SumPoints(result["Transit"]) + SumPoints(result["Drive"])

\* C16: over a time-ordered log, the counts of all buckets and all modes of
\* a throughput query (road or intersection) add up to the number of raw
\* records of that locus with time <= now.
C16_SumEqualsRawCount ==
    IsThroughputQuery =>
        SumAll(last.result) =
            Cardinality({i \in LocusRecords : QueriedLog[i].t <= last.now})

\* Two records of the queried road in different buckets, one of them a
\* pedestrian, both counted.
C16_Witness ==
    /\ last.op = "throughput_road"
    /\ Cardinality(LocusRecords) = 2
    /\ SumAll(last.result) = 2
    /\ Len(last.result["Walk"]) >= 3
    /\ SumPoints(last.result["Walk"]) = 1

\* C17: every record is counted in the fixed-width window that contains its
\* own time.  A point of the series is read either as the end of its window
\* (from the point before it up to it) or as the start of it (one width
\* long); the record must lie in one of the two.
C17_CountedInOwnWindow ==
    IsThroughputQuery =>
        \A i \in 1 .. Len(last.placed) :
            LET p == last.placed[i] IN
            \/ p.from <= p.t /\ p.t <= p.at
            \/ p.at <= p.t /\ p.t < p.at + last.bucket

\* C18: the series has no gaps: its times start at start-of-day, strictly
\* increase, and every multiple of the width up to now is one of them.
C18_NoGaps ==
    IsThroughputQuery =>
        \A m \in TripModes :
            LET series == last.result[m] IN
            /\ series[1].t = START_OF_DAY
            /\ \A i \in 1 .. Len(series) - 1 : series[i].t < series[i + 1].t
            /\ \A k \in 0 .. MaxTime :
                   START_OF_DAY + k * last.bucket <= last.now
                       => \E i \in 1 .. Len(series) :
                              series[i].t = START_OF_DAY + k * last.bucket

\* The time of the last record of the queried locus.
LastEventTime == QueriedLog[CHOOSE i \in LocusRecords : \A j \in LocusRecords : j <= i].t

\* C19: the number of buckets of a road throughput query is the number of
\* widths needed to cover start-of-day .. min(now, last event of the road).
\* The buckets are counted either as the points of the series or as the
\* intervals between them, and the widths needed either as the quotient
\* rounded up or as the index of the window holding the end, plus one.
C19_BucketCount ==
    (last.op = "throughput_road" /\ LocusRecords # {}) =>
        LET span == Min(last.now, LastEventTime) - START_OF_DAY
            n == Len(last.result["Walk"])
        IN {n, n - 1} \cap {(span + last.bucket - 1) \div last.bucket,
                            (span \div last.bucket) + 1} # {}

\* The counts of the series, summed over the modes, point by point.
TotalCounts(result) ==
    [i \in 1 .. Len(result["Walk"]) |->
        result["Walk"][i].n + result["Bike"][i].n
            + result["Transit"][i].n + result["Drive"][i].n]

PointTimes(series) == [i \in 1 .. Len(series) |-> series[i].t]

LocusTimes(raw, id) ==
    LET sel == SelectSeq(raw, LAMBDA rec : rec.id = id) IN PointTimes(sel)

\* The times of the delays measured at intersection i, in list order.
DelayTimes(i) ==
    IF i \in DOMAIN intersection_delays THEN PointTimes(intersection_delays[i]) ELSE <<>>

\* The number of samples of every bucket of a delay distribution.
SampleCounts(results) == [k \in 1 .. Len(results) |-> Len(results[k].h)]

\* The delay query agrees with a throughput series: same times, and as many
\* samples in every bucket as the series counts there over all modes.
SameBuckets(results, per_mode) ==
    /\ PointTimes(results) = PointTimes(per_mode["Walk"])
    /\ SampleCounts(results) = TotalCounts(per_mode)

\* C21: intersection_delay_distribution walks the buckets as
\* throughput_by_bucket does: whenever the delays of the intersection were
\* measured at the same times as the entries into an intersection (or a
\* road) were recorded, the delay query and the throughput query of that
\* locus, for the same width and now, return the same bucket times and as
\* many samples as counts in every bucket.
C21_SameBucketWalk ==
    last.op = "intersection_delays_bucketized" =>
        /\ \A i \in Intersections :
               LocusTimes(raw_per_intersection, i) = DelayTimes(last.id)
                   => SameBuckets(last.result,
                                  throughput_intersection(last.now, i, last.bucket))
        /\ \A r \in Roads :
               LocusTimes(raw_per_road, r) = DelayTimes(last.id)
                   => SameBuckets(last.result, throughput_road(last.now, r, last.bucket))

(* ------------------------------ the event log -------------------------- *)

ListNames ==
    {"raw_per_road", "raw_per_intersection", "bus_arrivals", "finished_trips",
     "trip_log"} \cup Intersections

\* Every stored list: the five vectors, and the delay list of every
\* intersection (empty while the intersection has none).
StoredList(name) ==
    CASE name = "raw_per_road" -> raw_per_road
      [] name = "raw_per_intersection" -> raw_per_intersection
      [] name = "bus_arrivals" -> bus_arrivals
      [] name = "finished_trips" -> finished_trips
      [] name = "trip_log" -> trip_log
      [] OTHER -> IF name \in DOMAIN intersection_delays
                  THEN intersection_delays[name] ELSE <<>>

TimeOrdered(list) == \A i \in 1 .. Len(list) - 1 : list[i].t <= list[i + 1].t

IsPrefix(old, new) ==
    /\ Len(old) <= Len(new)
    /\ \A i \in 1 .. Len(old) : new[i] = old[i]

\* C23: the log is append-only: every step leaves each list a prefix of
\* what it is afterwards; no entry is removed, changed or moved.
C23_AppendOnly ==
    [][\A name \in ListNames : IsPrefix(StoredList(name), StoredList(name)')]_vars

\* A second entry was appended behind a first one.
C23_Witness ==
    /\ last.op = "event"
    /\ last.ev.type = "BusArrivedAtStop"
    /\ Len(bus_arrivals) = 2
    /\ bus_arrivals[1].t < bus_arrivals[2].t

RawCount(raw, id) == Cardinality({i \in 1 .. Len(raw) : raw[i].id = id})

TripEntries(trip) == SelectSeq(trip_log, LAMBDA e : e.id = trip)

IsTerminal(md) == md \in {TRIP_FINISHED, TRIP_ABORTED}

\* The position of the first terminal marker among the entries, or one past
\* the end when there is none.
FirstTerminal(entries) ==
    LET marks == {j \in 1 .. Len(entries) : IsTerminal(entries[j].md)} IN
    IF marks = {} THEN Len(entries) + 1
    ELSE CHOOSE j \in marks : \A k \in marks : j <= k

\* C25: in the result of trip_phases(trip) the j-th phase starts at the time
\* of the j-th log entry of the trip and ends at the time of the next entry
\* of the trip; the end of one phase is the start of the next; an end is
\* absent only for a phase that no entry of the trip follows.
C25_PhasesPairEntries ==
    last.op = "get_trip_phases" =>
        LET entries == TripEntries(last.trip)
            phases == last.result
        IN /\ Len(phases) <= Len(entries)
           /\ \A j \in 1 .. Len(phases) :
                  /\ phases[j].start_time = entries[j].t
                  /\ phases[j].end_time =
                         IF j < Len(entries) THEN Some(entries[j + 1].t) ELSE None
                  /\ j < Len(phases)
                         => phases[j].end_time = Some(phases[j + 1].start_time)

\* Two trips interleaved: the first phase of t0 is closed by its second
\* entry although an entry of t1 lies in between, and its last phase is
\* closed by the finish.
C25_Witness ==
    /\ last.op = "get_trip_phases"
    /\ last.trip = "t0"
    /\ Len(last.result) = 2
    /\ Len(trip_log) = 4
    /\ trip_log[2].id = "t1"
    /\ trip_log[4].md = TRIP_FINISHED
    /\ last.result[1].end_time = Some(trip_log[3].t)
    /\ last.result[2].end_time = Some(trip_log[4].t)
    /\ trip_log[1].t < trip_log[3].t

\* C26: trip_phases stops at the first terminal marker of the trip: there
\* are exactly as many phases as entries before it, none of them is the
\* marker, the marker closes the last of them, and what the log holds for
\* the trip after the marker changes nothing.
C26_StopsAtTerminal ==
    last.op = "get_trip_phases" =>
        LET entries == TripEntries(last.trip)
            phases == last.result
            n == FirstTerminal(entries)
        IN /\ Len(phases) = n - 1
           /\ \A j \in 1 .. Len(phases) : ~IsTerminal(phases[j].description)
           /\ (n <= Len(entries) /\ n > 1)
                  => phases[n - 1].end_time = Some(entries[n].t)

\* A phase, the abort, then two more entries of the same trip at a later
\* time: one phase, closed at the time of the abort.
C26_Witness ==
    /\ last.op = "get_trip_phases"
    /\ last.trip = "t0"
    /\ Len(TripEntries("t0")) = 4
    /\ trip_log[2].md = TRIP_ABORTED
    /\ trip_log[3].md = "CarID(0)"
    /\ trip_log[4].md = TRIP_FINISHED
    /\ trip_log[2].t < trip_log[3].t
    /\ Len(last.result) = 1
    /\ last.result[1].end_time = Some(trip_log[2].t)

(* ------------------------------ parking overhead ----------------------- *)

\* The log of the trip is a run of phases, closed by at most one terminal
\* marker, with nothing after it.
WellFormed(trip) ==
    LET entries == TripEntries(trip) IN
    entries # <<>> =>
        /\ ~IsTerminal(entries[1].md)
        /\ FirstTerminal(entries) >= Len(entries)

Completed(trip) ==
    LET entries == TripEntries(trip) IN
    /\ \E j \in 1 .. Len(entries) : entries[j].md = TRIP_FINISHED
    /\ \A j \in 1 .. Len(entries) : entries[j].md # TRIP_ABORTED

HasWalkingPhase(trip) ==
    \E j \in 1 .. Len(TripEntries(trip)) : starts_with(TripEntries(trip)[j].md, PED_PREFIX)

HasDrivingPhase(trip) ==
    \E j \in 1 .. Len(TripEntries(trip)) : starts_with(TripEntries(trip)[j].md, CAR_PREFIX)

SamplesOf(distrib, trip) ==
    Cardinality({k \in 1 .. Len(distrib) : distrib[k].trip = trip})

\* C29: parking_overhead_report accumulates exactly one sample for every
\* completed trip whose timeline holds a walking phase and a vehicle-tagged
\* driving phase, and none for any other trip (stated for logs in which
\* every trip is a run of phases closed by at most one terminal marker).
C29_OneSamplePerQualifyingTrip ==
    (last.op = "analyze_parking_phases" /\ \A trip \in TripIDs : WellFormed(trip)) =>
        /\ last.ok
        /\ \A trip \in TripIDs :
               SamplesOf(last.distrib, trip) =
                   IF Completed(trip) /\ HasWalkingPhase(trip) /\ HasDrivingPhase(trip)
                   THEN 1 ELSE 0

\* The kind of a phase: "driving" for a car, "overhead" for a pedestrian or
\* parking, "other" for the rest.
KindOf(md) ==
    IF starts_with(md, CAR_PREFIX) THEN "driving"
    ELSE IF md \in {PARKING_ELSEWHERE, PARKING_HERE} \/ starts_with(md, PED_PREFIX)
    THEN "overhead"
    ELSE "other"

\* The time between the entries from the j-th on that was spent in phases
\* of one kind.
RECURSIVE TimeIn(_, _, _)
TimeIn(entries, j, kind) ==
    IF j >= Len(entries) THEN 0
    ELSE (IF KindOf(entries[j].md) = kind THEN entries[j + 1].t - entries[j].t ELSE 0)
             + TimeIn(entries, j + 1, kind)

\* The trips the two statements below are about: a run of phases closed by
\* "trip finished".
FinishedCleanly(trip) == WellFormed(trip) /\ Completed(trip)

ArrivalsAt(bus, r, stop, now) ==
    {i \in 1 .. Len(bus_arrivals) :
        /\ bus_arrivals[i].car = bus
        /\ bus_arrivals[i].route = r
        /\ bus_arrivals[i].stop = stop
        /\ bus_arrivals[i].t <= now}

\* The times between two arrivals of the bus at the stop with no arrival of
\* that bus at that stop in between.
ReturnTimes(bus, r, stop, now) ==
    LET at == ArrivalsAt(bus, r, stop, now) IN
    {bus_arrivals[j].t - bus_arrivals[i].t :
        <<i, j>> \in {p \in at \X at :
                         /\ p[1] < p[2]
                         /\ \A k \in at : ~(p[1] < k /\ k < p[2])}}

\* C27: every sample bus_headways(now, route) holds for stop S is the time
\* between two consecutive arrivals of one bus at S, and there is one sample
\* for each return of a bus to S: a bus that came to S once adds none.
C27_SamplesAreReturnsToStop ==
    last.op = "bus_arrivals" =>
        \A stop \in BusStops :
            LET hgram == IF stop \in DOMAIN last.result THEN last.result[stop] ELSE <<>> IN
            /\ \A k \in 1 .. Len(hgram) :
                   \E bus \in BusIDs : hgram[k] \in ReturnTimes(bus, last.r, stop, last.now)
            /\ Len(hgram) + Cardinality({bus \in BusIDs :
                                             ArrivalsAt(bus, last.r, stop, last.now) # {}})
                   = Cardinality(UNION {ArrivalsAt(bus, last.r, stop, last.now) :
                                            bus \in BusIDs})

\* C28: a query on absent data returns an empty result: trip_phases of a
\* trip without log entries is the empty sequence, and bus_headways of a
\* route without recorded arrivals is the empty map.
C28_AbsentDataIsEmpty ==
    /\ (last.op = "get_trip_phases" /\ TripEntries(last.trip) = <<>>)
           => last.result = <<>>
    /\ (last.op = "bus_arrivals"
           /\ \A i \in 1 .. Len(bus_arrivals) : bus_arrivals[i].route # last.r)
           => DOMAIN last.result = {}

\* The headways of a route no bus arrived on were asked for while a bus of
\* another route had come to two stops.
C28_Witness ==
    /\ last.op = "bus_arrivals"
    /\ last.r = "br1"
    /\ Len(bus_arrivals) = 2
    /\ bus_arrivals[1].car = bus_arrivals[2].car
    /\ bus_arrivals[2].t <= last.now
    /\ last.result = <<>>

(* ------------------- car records and occupant slots -------------------- *)

\* C36: in every reachable state the car records and the occupant slots
\* correspond one to one: a vehicle occupies at most one slot, a slot holds
\* vehicle v exactly when a ParkedCar record for v exists and names that
\* slot, and building the draw records of a lane never fails.
C36_RecordsMatchSlots ==
    ~panicked =>
        /\ \A s1, s2 \in AllSpots :
               (IsOccupied(s1) /\ Occupant(s1) = Occupant(s2)) => s1 = s2
        /\ \A spot \in AllSpots, v \in CarIDs :
               Occupant(spot) = Some(v) <=> (v \in DOMAIN cars /\ cars[v].spot = spot)
        /\ \A lane \in LaneIDs : get_draw_cars(lane).ok

(* ----------------------- the availability queries ---------------------- *)

\* C39: the three availability queries agree in every reachable state:
\* is_free(spot) holds exactly when the spot has no occupant and no
\* reservation, a spot returned by get_first_free_spot satisfies is_free,
\* and a spot that satisfies is_free is listed by get_free_spots of its lane.
C39_QueriesAgree ==
    /\ \A spot \in AllSpots :
           /\ is_free(spot) <=> (~IsOccupied(spot) /\ ~IsReserved(spot))
           /\ is_free(spot) => spot \in Range(get_free_spots(spot.lane))
    /\ \A parking_pos \in Positions, vehicle \in Vehicles :
           LET r == get_first_free_spot(parking_pos, vehicle)
           IN  r # None => is_free(Unwrap(r))
    /\ last.op = "get_first_free_spot" /\ last.result # None
           => is_free(Unwrap(last.result))

\* Stall 0 is reserved, stall 1 occupied, and the search from the start of
\* the lane has just returned stall 2, the only one that is free.
C39_Witness ==
    /\ last.op = "get_first_free_spot"
    /\ last.parking_pos.dist_along = 0
    /\ last.result = Some(ParkingSpot(0, 2))
    /\ IsReserved(ParkingSpot(0, 0))
    /\ IsOccupied(ParkingSpot(0, 1))
    /\ ParkingSpot(0, 0) \in Range(get_free_spots(0))
    /\ ~is_free(ParkingSpot(0, 0))

(* -------------------- the overhead report never fails ------------------ *)

\* C38: analyze_parking_phases completes without failure for every log
\* that event can produce, including a log in which the only entry of a trip
\* is its trip-finished marker, a trip that is aborted, and a trip with
\* further entries after its terminal marker.
C38_ReportCompletes ==
    last.op = "analyze_parking_phases" => last.ok

(* ------------------ road against intersection throughput --------------- *)

\* The (time, mode) records a raw log holds for one locus, in list order.
LocusSeries(raw, id) ==
    LET sel == SelectSeq(raw, LAMBDA rec : rec.id = id)
    IN  [k \in 1 .. Len(sel) |-> <<sel[k].t, sel[k].m>>]

\* C37: throughput_road and throughput_intersection implement the same
\* bucketing: given the same sequence of (time, mode) records for their
\* locus, the same bucket width and the same now, they return identical
\* series (same bucket times, same counts per mode).
C37_SameSeries ==
    \A road \in Roads, intersection \in Intersections :
        LocusSeries(raw_per_road, road) = LocusSeries(raw_per_intersection, intersection)
            => /\ (last.op = "throughput_road" /\ last.id = road)
                      => last.result
                             = throughput_intersection(last.now, intersection, last.bucket)
               /\ (last.op = "throughput_intersection" /\ last.id = intersection)
                      => last.result = throughput_road(last.now, road, last.bucket)

(* ------------------------ finished-trip statistics --------------------- *)

\* The positions of finished_trips that hold a record not later than now.
RecordsUpTo(now) == {i \in 1 .. Len(finished_trips) : finished_trips[i].t <= now}

\* The durations of the records of one mode not later than now, in list order.
DurationsOf(now, mode) ==
    LET sel == SelectSeq(finished_trips, LAMBDA rec : rec.t <= now /\ rec.m = Some(mode))
    IN  [k \in 1 .. Len(sel) |-> sel[k].dt]

RECURSIVE SumLens(_, _)
SumLens(per_mode, modes) ==
    IF modes = {} THEN 0
    ELSE LET m == CHOOSE x \in modes : TRUE
         IN  Len(per_mode[m]) + SumLens(per_mode, modes \ {m})

\* C35: all_finished_trips(now) accounts for every record of finished_trips
\* with time <= now exactly once: the samples of the all-trips distribution
\* plus the aborted trips are as many as these records, the all-trips
\* distribution has as many samples as the per-mode ones together, an
\* aborted trip adds no sample, and finished_trips(now, mode) holds the
\* same samples as the per-mode entry of that mode.
C35_EveryRecordOnce ==
    /\ last.op = "all_finished_trips" =>
           LET res == last.result IN
           /\ Len(res.all) + res.num_aborted = Cardinality(RecordsUpTo(last.now))
           /\ Len(res.all) = SumLens(res.per_mode, TripModes)
           /\ res.num_aborted
                  = Cardinality({i \in RecordsUpTo(last.now) : finished_trips[i].m = None})
           /\ \A mode \in TripModes :
                  /\ res.per_mode[mode] = DurationsOf(last.now, mode)
                  /\ res.per_mode[mode] = finished_trips_query(last.now, mode)
    /\ last.op = "finished_trips" =>
           last.result = all_finished_trips(last.now).per_mode[last.mode]

\* A walking trip finished, then a trip was aborted, and the statistics
\* were asked for at a time not before the second record.
C35_Witness ==
    /\ last.op = "all_finished_trips"
    /\ Len(finished_trips) = 2
    /\ finished_trips[1].m = Some("Walk")
    /\ finished_trips[2].m = None
    /\ finished_trips[2].t <= last.now
    /\ last.result.num_aborted = 1
    /\ last.result.all = <<finished_trips[1].dt>>

(* ------------------------- persisted and rebuilt ----------------------- *)

\* The lists of an Analytics: the raw event log and the raw per-locus lists.
RawData(a) ==
    <<a.raw_per_road, a.raw_per_intersection, a.bus_arrivals, a.finished_trips,
      a.trip_log, a.intersection_delays>>

\* C34: saving and restoring keeps the raw event log and the raw per-locus
\* lists identical, and every counter that is not saved can be rebuilt from
\* the restored lists to the value it had before saving: the count of a road
\* and of an intersection is the number of its raw records, and a restored
\* Analytics whose lists are those of a new one stems from an Analytics
\* whose bus passenger totals were those of a new one.
C34_RestoredRawAndCounters ==
    last.op = "save_load" =>
        /\ RawData(last.restored) = RawData(AnalyticsState)
        /\ \A r \in Roads : RawCount(last.restored.raw_per_road, r) = count_per_road[r]
        /\ \A i \in Intersections :
               RawCount(last.restored.raw_per_intersection, i) = count_per_intersection[i]
        /\ RawData(last.restored) = RawData(AnalyticsNew)
               => total_bus_passengers = AnalyticsNew.total_bus_passengers

(* -------------------------- queries change nothing --------------------- *)

\* What the two objects store.
StoredState == <<cars, lanes, reserved_spots, AnalyticsState>>

\* The calls that are allowed to change it.
Mutators == {"reserve_spot", "add_parked_car", "remove_parked_car", "event"}

\* C33: no query changes stored state: a step of any call other than
\* reserve_spot, add_parked_car, remove_parked_car and event leaves the
\* occupants, the reservations and the car records of the allocator and the
\* lists and counters of the Analytics as they were.
C33_QueriesKeepState ==
    [][last'.op \notin Mutators => StoredState' = StoredState]_vars

\* The draw records of the parking lane were built while one car stood on
\* it and another stall was reserved.
C33_Witness ==
    /\ last.op = "get_draw_cars"
    /\ last.ok
    /\ Len(last.result) = 1
    /\ reserved_spots # {}

(* --------------------- percentages of the trip table ------------------- *)

\* C31: no percentage is computed with a zero denominator: whenever the
\* trip table is made, no division it evaluates has a zero duration as its
\* divisor, trips of zero duration included.
C31_NoZeroDenominator == last.op = "make" => last.zero_div = 0

\* The whole percents in num / den, the fraction dropped.
IntegerPercent(num, den) == (100 * num) \div den

\* C32: the figures of a table that was made are the real quotients with
\* the fraction dropped: the percent waiting of a trip that took d > 0 and
\* waited w is the integer part of 100 * w / d, a trip faster than its
\* baseline shows the integer part of 100 * (1 - after / before), a slower
\* one the integer part of 100 * (after / before - 1).
C32_FiguresAreTruncatedQuotients ==
    (last.op = "make" /\ last.ok) =>
        \A i \in 1 .. Len(last.rows) :
            LET x == last.data[last.opts.skip + i]
                row == last.rows[i]
            IN  /\ x.duration_after > 0
                    => row.percent_waiting = IntegerPercent(x.waiting, x.duration_after)
                /\ (row.change # None /\ x.duration_before > 0)
                    => LET c == Unwrap(row.change) IN
                       /\ c.kind = "faster"
                           => c.pct = IntegerPercent(x.duration_before - x.duration_after,
                                                     x.duration_before)
                       /\ c.kind = "slower"
                           => c.pct = IntegerPercent(x.duration_after - x.duration_before,
                                                     x.duration_before)

====
